---- MODULE Spec2Model ----
(***************************************************************************)
(* Model of the AI service router (aiServiceRouter.ts), the Bedrock text   *)
(* adapter's retry loop (bedrockService.ts, callClaudeModel), the local    *)
(* CLI adapters (codexService, claudeCodeService) and the capability probe *)
(* (localContentService.ts, checkLocalAIAvailability), the bulk pipeline   *)
(* (contentService.ts, generateAllContent) and the heat-level converters   *)
(* (contentService.ts and localContentService.ts, convertRomanceHeatLevel, *)
(* behind the router's operation of that name).                            *)
(*                                                                         *)
(* One router operation is an async function; JavaScript runs it           *)
(* atomically from one await to the next.  Each action below is one such   *)
(* segment: it starts when an awaited promise settles (a probe, a CLI      *)
(* process, a backend request, a backoff timer) and runs the handler up to *)
(* the next await, a return or a throw, the catch blocks included.         *)
(***************************************************************************)
EXTENDS Integers, Sequences, FiniteSets, TLC

\* Router operations a session may start.
MaxCalls == 2

\* bedrockService.ts:54  const maxRetries = 3
maxRetries == 3

VARIABLES
    isBrowser,    \* aiServiceRouter.ts:7  typeof window !== 'undefined'
    useLocalAI,   \* aiConfig  currentConfig.useLocalAI
    installed,    \* which CLIs `codex --version` / `claude --version` find
    cancelled,    \* what the caller's isCancelledFn() returns now
    probes,       \* checkLocalAIAvailability executions in this session
    nCalls,       \* router operations started in this session
    rc,           \* the router operation in progress (or the last one)
    book,         \* the Book object a bulk run works on (mutated in place)
    run,          \* the bulk run in progress (or the last one)
    doc,          \* a provider response text handed to an outline parser
    img,          \* the Bedrock image operation in progress (or the last one)
    cli           \* the CLI adapters' invocations, the clock and /tmp

vars == <<isBrowser, useLocalAI, installed, cancelled, probes, nCalls, rc,
          book, run, doc, img, cli>>

\* The variables of a bulk run.
pipeVars == <<book, run>>

\* The variables of the text functions, of the image operation and of the
\* CLI invocations.
textVars == <<doc, img, cli>>

----------------------------------------------------------------------------
\* JavaScript values of the apiKeys argument.  t is typeof apiKeys; for an
\* object, bedrock says whether the bedrock property is set, ak/sk are its
\* accessKeyId/secretAccessKey, gemini is the gemini property
\* ("undefined" when it is not set).

Strings == {"", "K"}

ApiKeys ==
    {[t |-> "undefined", s |-> "", bedrock |-> FALSE, ak |-> "", sk |-> "",
      gemini |-> "undefined"]}
    \cup {[t |-> "string", s |-> s, bedrock |-> FALSE, ak |-> "", sk |-> "",
           gemini |-> "undefined"] : s \in Strings}
    \cup {[t |-> "object", s |-> "", bedrock |-> FALSE, ak |-> "", sk |-> "",
           gemini |-> g] : g \in Strings \cup {"undefined"}}
    \cup {[t |-> "object", s |-> "", bedrock |-> TRUE, ak |-> a, sk |-> k,
           gemini |-> g] : a \in Strings, k \in Strings,
                           g \in Strings \cup {"undefined"}}

Ops == {"bookOutline", "chapterOutline", "content"}

\* Operations whose result is the provider's text itself: generateContent
\* and generateContentWithHeatLevel.
TextOps == {"content", "heatContent"}

\* Errors: kind is the error's class or message, by the layer that raised
\* it, names the providers its message names, cause the kind of the error
\* whose message it embeds.
Err(kind, by, names, cause) ==
    [kind |-> kind, by |-> by, names |-> names, cause |-> cause]

NoErr == Err("none", "none", {}, "none")

\* new Error('Generation cancelled')
ErrCancelled(by) == Err("cancelled", by, {}, "none")

IdleCall ==
    [pc |-> "idle", op |-> "none",
     keys |-> [t |-> "undefined", s |-> "", bedrock |-> FALSE, ak |-> "",
               sk |-> "", gemini |-> "undefined"],
     fn |-> FALSE, perspective |-> "", author |-> "",
     localMode |-> FALSE, avail |-> [codex |-> FALSE, claudeCode |-> FALSE],
     local |-> "none", localFn |-> FALSE,
     nProbe |-> 0, nLocal |-> 0, nBedrock |-> 0, nGemini |-> 0,
     geminiArg |-> "none",
     attempt |-> 0, sends |-> 0, waits |-> <<>>, throttles |-> 0,
     checks |-> 0, checkTrue |-> FALSE, sendSawCancel |-> FALSE,
     lastResp |-> "none", claudeText |-> FALSE, afterLoop |-> FALSE,
     localResp |-> "none",
     localErr |-> NoErr, bedrockErr |-> NoErr, geminiErr |-> NoErr,
     direct |-> FALSE,
     used |-> "none", value |-> "none", err |-> NoErr]

----------------------------------------------------------------------------
\* The router's two ways out.

Returned(r, service, value) ==
    [r EXCEPT !.pc = "returned", !.used = service, !.value = value]

Threw(r, e) == [r EXCEPT !.pc = "threw", !.err = e]

----------------------------------------------------------------------------
\* Truthiness of a string-valued property that may be unset.
Truthy(p) == p \notin {"undefined", ""}

\* aiServiceRouter.ts:192  gemini: apiKeys?.gemini || apiKeys
\* The JavaScript type of the value that expression yields: the gemini
\* property when it is truthy, otherwise apiKeys itself.
GeminiCredential(keys) ==
    IF keys.t = "object"
    THEN IF Truthy(keys.gemini) THEN "string" ELSE "object"
    ELSE IF keys.t = "string"
         THEN IF keys.s # "" THEN "string" ELSE "emptyString"
         ELSE "undefined"

\* aiServiceRouter.ts:50  if (!credentials.gemini)
GeminiMissing(keys) == GeminiCredential(keys) \in {"undefined", "emptyString"}

\* aiServiceRouter.ts:37
\* !credentials.bedrock?.accessKeyId || !credentials.bedrock?.secretAccessKey
BedrockMissing(keys) ==
    \/ keys.t # "object"
    \/ ~keys.bedrock
    \/ keys.ak = ""
    \/ keys.sk = ""

\* aiServiceRouter.ts:45-57.  Called from the catch block of a router
\* operation with the error tryBedrock raised.  Either throws, or starts the
\* Gemini operation and awaits it.
fallbackToGemini(r, originalError) ==
    IF GeminiMissing(r.keys)
    THEN Threw(r, Err("geminiUnavailable", "router", {"bedrock", "gemini"},
                      originalError.kind))
    ELSE [r EXCEPT !.pc = "gemini",
                   !.nGemini = @ + 1,
                   !.geminiArg = GeminiCredential(r.keys)]

\* contentService.ts:224-234: the catch block of the cloud converter calls
\* the Gemini heat-level operation with apiKeys.gemini, set or not.
HeatCatch(r) ==
    [r EXCEPT !.pc = "gemini",
              !.nGemini = @ + 1,
              !.geminiArg = IF r.keys.t = "object" /\ Truthy(r.keys.gemini)
                            THEN "string" ELSE "undefined"]

\* A router operation without the catch block around tryBedrock.
BedrockThrew_NoCatch(r, e) == Threw([r EXCEPT !.bedrockErr = e], e)

\* aiServiceRouter.ts:201-207: catch (error) { return await fallbackToGemini }
\* for an error raised by the Bedrock operation; contentService.ts:224 for
\* one raised by the Bedrock heat-level operation.
BedrockThrew(r, e) ==
    IF r.op = "heatContent"
    THEN HeatCatch([r EXCEPT !.bedrockErr = e])
    ELSE fallbackToGemini([r EXCEPT !.bedrockErr = e], e)

\* generateContent calling callClaudeModel without the caller's check.
BedrockGetsFn_Never(op) == FALSE

\* Which operations hand the caller's isCancelledFn to the Bedrock adapter:
\* aiServiceRouter.ts:198 does, :93 and :147 do not.
BedrockGetsFn(op) == op = "content"

\* bedrockService.ts:105  Math.pow(2, attempt) * 1000
BackoffDelay(attempt) == (2 ^ attempt) * 1000

\* The retry budget checked with > instead of >=.
RetriesExhausted_OffByOne(attempt) == attempt > maxRetries

\* bedrockService.ts:99  if (attempt >= maxRetries) throw error
RetriesExhausted(attempt) == attempt >= maxRetries

\* bedrockService.ts:56-85: the head of the retry loop for attempt a, with c
\* what isCancelledFn() returns now: the loop condition, the cancellation
\* check, then the request is sent and awaited.
ClaudeAttempt(r, a, c) ==
    IF ~(a <= maxRetries)
    THEN BedrockThrew([r EXCEPT !.afterLoop = TRUE],
                      Err("maxRetriesExceeded", "bedrock", {"bedrock"}, "none"))
    ELSE LET consult == BedrockGetsFn(r.op) /\ r.fn
             r1 == [r EXCEPT !.attempt = a,
                             !.checks = IF consult THEN @ + 1 ELSE @,
                             !.checkTrue = @ \/ (consult /\ c)]
         IN  IF consult /\ c
             THEN BedrockThrew(r1, ErrCancelled("bedrock"))
             ELSE [r1 EXCEPT !.pc = "bedrock",
                             !.sends = @ + 1,
                             !.sendSawCancel = @ \/ (r.fn /\ c)]

\* What the backend can answer to one request: text holding a JSON object,
\* text holding none, text with a malformed JSON span, no text, a
\* ThrottlingException, any other error.
BedrockResps == {"json", "nojson", "badjson", "empty", "throttle", "error"}

TextResps == {"json", "nojson", "badjson"}

\* An empty answer treated as throttling.
ClaudeError_EmptyThrottles(resp) ==
    IF resp \in {"throttle", "empty"}
    THEN Err("ThrottlingException", "bedrock", {"bedrock"}, "none")
    ELSE Err("serviceError", "bedrock", {"bedrock"}, "none")

\* bedrockService.ts:85-95: the error an answer raises inside the try block.
ClaudeError(resp) ==
    IF resp = "throttle"
    THEN Err("ThrottlingException", "bedrock", {"bedrock"}, "none")
    ELSE IF resp = "empty"
         THEN Err("emptyResponse", "bedrock", {"bedrock"}, "none")
         ELSE Err("serviceError", "bedrock", {"bedrock"}, "none")

\* bedrockService.ts:246-286, 316-340, 363-364: what the operation does with
\* the text callClaudeModel returned.  The outline operations extract and
\* parse a JSON object and turn every failure into a parse error; content
\* returns the trimmed text.
BedrockOpReturn(r) ==
    LET r1 == [r EXCEPT !.claudeText = TRUE]
    IN  IF r.op \in TextOps \/ r.lastResp = "json"
        THEN Returned(r1, "bedrock", "bedrockResult")
        ELSE BedrockThrew(r1, Err("parseFailed", "bedrock", {"bedrock"}, "none"))

\* A retry loop that waits and goes on after every error, whatever the
\* attempt.
ClaudeResponse_RetriesAll(r, resp) ==
    LET r1 == [r EXCEPT !.lastResp = resp,
                        !.throttles = IF resp = "throttle" THEN @ + 1 ELSE @]
    IN  IF resp \in TextResps
        THEN BedrockOpReturn(r1)
        ELSE [r1 EXCEPT !.pc = "backoff",
                        !.waits = Append(@, BackoffDelay(r.attempt))]

\* bedrockService.ts:85-113: the answer to the request of attempt r.attempt.
ClaudeResponse(r, resp) ==
    LET r1 == [r EXCEPT !.lastResp = resp,
                        !.throttles = IF resp = "throttle" THEN @ + 1 ELSE @]
    IN  IF resp \in TextResps
        THEN BedrockOpReturn(r1)
        ELSE IF RetriesExhausted(r.attempt)
             THEN BedrockThrew(r1, ClaudeError(resp))
             ELSE IF ClaudeError(resp).kind = "ThrottlingException"
                  THEN [r1 EXCEPT !.pc = "backoff",
                                  !.waits = Append(@, BackoffDelay(r.attempt))]
                  ELSE BedrockThrew(r1, ClaudeError(resp))

\* tryBedrock without its credentials guard.
tryBedrock_NoGuard(r, c) == ClaudeAttempt([r EXCEPT !.nBedrock = @ + 1], 0, c)

\* aiServiceRouter.ts:33-43 inside the try of :196-200.  c is what
\* isCancelledFn() returns now.
tryBedrock(r, c) ==
    IF BedrockMissing(r.keys)
    THEN fallbackToGemini(r, Err("noBedrockCredentials", "router",
                                 {"bedrock"}, "none"))
    ELSE ClaudeAttempt([r EXCEPT !.nBedrock = @ + 1], 0, c)

\* aiServiceRouter.ts:83-105, 138-156, 189-207: the cloud part of a router
\* operation.
Cloud(r, c) == tryBedrock(r, c)

----------------------------------------------------------------------------
\* The local part of a router operation.

\* The local branch taken on the configuration flag alone.
LocalBranch_NoBrowserTest(localEnabled, browser) == localEnabled

\* aiServiceRouter.ts:71, 115, 166  isLocalAIEnabled() && !isBrowser
LocalBranch(localEnabled, browser) == localEnabled /\ ~browser

\* (LocalThrew_Rethrows: a router whose catch block passes the error on.)
\* aiServiceRouter.ts:77-81, 132-136, 183-187: the catch block logs the
\* error and the operation goes on with the cloud services.
\* An error of a CLI adapter called by the local converter
\* (localContentService.ts:285-302) leaves the converter, and one of an
\* adapter called by the local bulk pipeline (localContentService.ts:97-103,
\* 126-132; r.direct) leaves that pipeline.
LocalThrew_Rethrows(r, e, c) == Threw([r EXCEPT !.localErr = e], e)

LocalThrew(r, e, c) ==
    IF r.op = "heatContent" \/ r.direct
    THEN Threw([r EXCEPT !.localErr = e], e)
    ELSE Cloud([r EXCEPT !.localErr = e], c)

\* The adapter an operation picks from the probe's answer:
\* aiServiceRouter.ts:172-182 (content: Codex first),
\* aiServiceRouter.ts:121-131 and localContentService.ts:371-381
\* (outlines: Claude Code first).
LocalAdapterFor(op, availability) ==
    IF op = "content"
    THEN IF availability.codex THEN "codex"
         ELSE IF availability.claudeCode THEN "claudeCode" ELSE "none"
    ELSE IF availability.claudeCode THEN "claudeCode"
         ELSE IF availability.codex THEN "codex" ELSE "none"

\* unnamed/part_004:16-48 (callCodexCLI) and api/cover.ts:95-127
\* (callClaudeCodeCLI): the cancellation check before the prompt file is
\* written and the process started.  The router's book-outline operation
\* passes generateLocalBookOutline nine arguments for seven parameters
\* (aiServiceRouter.ts:75, localContentService.ts:360-368), so there the
\* adapter's isCancelledFn is the author string: calling it raises a
\* TypeError when the string is not empty.
LocalEntry(r, adapter, c) ==
    LET r1 == [r EXCEPT !.nLocal = @ + 1, !.local = adapter]
    IN  IF r.op = "bookOutline"
        THEN IF Truthy(r.author)
             THEN LocalThrew(r1, Err("TypeError", "local", {}, "none"), c)
             ELSE [r1 EXCEPT !.pc = "local"]
        ELSE IF r.fn /\ c
             THEN LocalThrew(r1, ErrCancelled("local"), c)
             ELSE [r1 EXCEPT !.pc = "local", !.localFn = r.fn]

\* aiServiceRouter.ts:119-131, 170-182, localContentService.ts:369-381:
\* the probe answered `availability`.
ProbeDone(r, availability, c) ==
    LET r1 == [r EXCEPT !.avail = availability]
        adapter == LocalAdapterFor(r.op, availability)
    IN  IF adapter = "none"
        THEN LocalThrew(r1, Err("noLocalService", "router", {"local"}, "none"), c)
        ELSE LocalEntry(r1, adapter, c)

\* What a CLI process can produce: text holding a JSON array, text holding
\* none, text with a malformed JSON span, no text, or a failed process.
LocalResps == {"json", "nojson", "badjson", "empty", "fail"}

\* unnamed/part_004:48-87, api/cover.ts:123-162 and the operations above
\* them (part_004:89-227, cover.ts:194-335): the process ended with `resp`.
\* An outline operation looks for a JSON span in the text (localResp keeps
\* what it was given): it parses the span it finds, and builds a list of
\* its own when it finds none.
LocalResponse(r, resp, c) ==
    IF resp = "fail"
    THEN LocalThrew(r, Err("cliError", "local", {"local"}, "processFailed"), c)
    ELSE IF resp = "empty"
    THEN LocalThrew(r, Err("cliError", "local", {"local"}, "emptyResponse"), c)
    ELSE IF r.localFn /\ c
    THEN LocalThrew(r, ErrCancelled("local"), c)
    ELSE IF r.op \in TextOps
    THEN Returned(r, "local", "localResult")
    ELSE LET r1 == [r EXCEPT !.localResp = resp]
         IN  IF resp = "json"
             THEN Returned(r1, "local", "localResult")
             ELSE IF resp = "nojson"
             THEN Returned(r1, "local", "localFallbackOutline")
             ELSE LocalThrew(r1, Err("SyntaxError", "local", {}, "none"), c)

\* aiServiceRouter.ts:71-76, 115-119, 166-170: the local branch up to its
\* first await.  generateLocalBookOutline's apiKeys parameter receives the
\* perspective string (localContentService.ts:369): when it is not empty
\* it is used in place of the probe's answer and names no CLI.
StartLocal(r, c) ==
    IF r.op = "bookOutline" /\ Truthy(r.perspective)
    THEN LocalThrew(r, Err("noLocalService", "router", {"local"}, "none"), c)
    ELSE [r EXCEPT !.pc = "probing", !.nProbe = @ + 1]

\* The error the Gemini adapter raises when it fails.
GeminiError == Err("geminiError", "gemini", {"gemini"}, "none")

\* aiServiceRouter.ts:55-56: the awaited Gemini operation settled.
\* contentService.ts:204-234: a Gemini heat-level call made in the try block
\* that fails is caught and made once more; one made in the catch block
\* that fails leaves the converter.
GeminiSettled(r, ok) ==
    IF ok
    THEN Returned(r, "gemini", "geminiResult")
    ELSE IF r.op = "heatContent" /\ r.bedrockErr = NoErr /\ r.geminiErr = NoErr
         THEN HeatCatch([r EXCEPT !.geminiErr = GeminiError])
         ELSE Threw([r EXCEPT !.geminiErr = GeminiError], GeminiError)

----------------------------------------------------------------------------
\* Books (unnamed/part_007:1-34).  A section's content is "none" when the
\* property is not set, "old" for text it held before the run, "new" for
\* text a provider produced in the run.  A chapter's has says whether its
\* subChapters property is set.

\* Chapters of a book a bulk run is started on.
MaxChapters == 2

\* Sections of a chapter's list, given or returned by a provider.
MaxSections == 2

Section(id, status, content) ==
    [id |-> id, status |-> status, content |-> content]

Chapter(id, status, has, subs) ==
    [id |-> id, status |-> status, has |-> has, subs |-> subs]

NoBook == [id |-> 0, status |-> "draft", chapters |-> <<>>]

\* All sections of a book, in order.
RECURSIVE SectionsFrom(_, _)
SectionsFrom(b, i) ==
    IF i > Len(b.chapters) THEN <<>>
    ELSE b.chapters[i].subs \o SectionsFrom(b, i + 1)

AllSections(b) == SectionsFrom(b, 1)

\* The place of section j of chapter i in the order of all sections.
SectionIndex(b, i, j) == Len(AllSections(b)) - Len(SectionsFrom(b, i)) + j

\* The nodes in which book b differs from book a of the same chapters: a
\* chapter whose list was attached, a chapter whose status changed, a
\* section of a list both have whose status or content changed.
NodeChanges(a, b) ==
    LET C == DOMAIN a.chapters \cap DOMAIN b.chapters
        both(i) == IF a.chapters[i].has /\ b.chapters[i].has
                   THEN DOMAIN a.chapters[i].subs \cap DOMAIN b.chapters[i].subs
                   ELSE {}
    IN  Cardinality({i \in C : a.chapters[i].has # b.chapters[i].has})
        + Cardinality({i \in C : a.chapters[i].status # b.chapters[i].status})
        + Cardinality(UNION {{<<i, k>> : k \in {l \in both(i) :
                                 a.chapters[i].subs[l] # b.chapters[i].subs[l]}} :
                             i \in C})

\* The frame of a bulk run: its arguments (kind, keys, fn), its loop
\* indices, the book as it was when the run started, and what an observer
\* of the run has seen: the number of onProgress calls and the argument of
\* the last one, the numbers of nodes that changed from one onProgress
\* argument to the next (diffs), the provider requests issued, the
\* outlines attached, the sections completed, when the cancellation flag
\* was raised, the next identifier uuidv4 hands out.  For a run started by
\* the router: the apiKeys the router was given (given) as opposed to those
\* it handed on (keys).  For a conversion: the function that was called
\* (via), the capability flags of its apiKeys, whether the router's catch
\* block has started the cloud converter.  lateCalls counts the provider
\* requests issued while isCancelledFn() was already true; overlap says
\* whether a request was issued while another one was outstanding.
\* For a run with research: the research calls made (resCalls), those that
\* returned (resDone), and the times researchAndGenerate consulted
\* isCancelledFn (resChecks).  local0 is what isLocalAIEnabled() returned
\* when the run was started.  For a conversion, orig is the
\* originalBook object as it is now, book0 its value when the call was made.
IdleRun ==
    [pc |-> "idle", kind |-> "none", keys |-> IdleCall.keys, fn |-> FALSE,
     i |-> 0, j |-> 0, book0 |-> NoBook, orig |-> NoBook,
     emits |-> 0, first |-> NoBook, last |-> NoBook, diffs |-> {},
     calls |-> <<>>,
     attached |-> 0, done |-> 0,
     cancelPhase |-> "none", cancelAfter |-> 0,
     via |-> "none", given |-> IdleCall.keys,
     flags |-> [codex |-> FALSE, claudeCode |-> FALSE],
     fellBack |-> FALSE, lateCalls |-> 0, overlap |-> FALSE,
     resCalls |-> 0, resDone |-> 0, resChecks |-> 0, local0 |-> FALSE,
     nextId |-> 1000, err |-> NoErr]

----------------------------------------------------------------------------
\* Response texts (bedrockService.ts:246-261, 316-328).  A text is a
\* sequence of tokens: "lb" and "rb" are the characters { and }, "fence"
\* is a code-fence marker with the white space around it (```json or ```),
\* "w" is any run of other characters.

\* Tokens of the prose before, and of the prose after, the JSON object.
MaxProse == 2

\* Tokens of the JSON object of a response.
MaxObject == 5

RECURSIVE SeqsUpTo(_, _)
SeqsUpTo(S, n) ==
    IF n = 0 THEN {<<>>}
    ELSE SeqsUpTo(S, n - 1)
         \cup {Append(t, x) : t \in {u \in SeqsUpTo(S, n - 1) : Len(u) = n - 1},
                              x \in S}

\* The nesting depth after the first k tokens of t.
RECURSIVE Depth(_, _)
Depth(t, k) ==
    IF k = 0 THEN 0
    ELSE Depth(t, k - 1) + (IF t[k] = "lb" THEN 1
                            ELSE IF t[k] = "rb" THEN -1 ELSE 0)

\* JSON.parse accepts a text that is one object: it opens with {, closes
\* with the matching } at its end, and an inner object follows its key.
IsObject(t) ==
    /\ Len(t) >= 2
    /\ t[1] = "lb"
    /\ t[Len(t)] = "rb"
    /\ Depth(t, Len(t)) = 0
    /\ \A k \in 1..(Len(t) - 1) : Depth(t, k) > 0
    /\ \A k \in 2..Len(t) :
         /\ t[k] # "fence"
         /\ t[k] = "lb" => t[k - 1] = "w"

Positions(t, x) == {k \in 1..Len(t) : t[k] = x}

\* cleanResponse.replace(/```json\s*|\s*```/g, '') and
\* cleanResponse.replace(/```\s*|\s*```/g, '').
stripFences(t) == SelectSeq(t, LAMBDA x : x # "fence")

NoMatch == [found |-> FALSE, span |-> <<>>]

\* cleanResponse.match(/\{[\s\S]*\}/): the match starts at the first {
\* that a } follows and, the star being greedy, ends at the last }.
jsonMatch(t) ==
    LET ls == Positions(t, "lb")
        rs == Positions(t, "rb")
        a == CHOOSE k \in ls : \A l \in ls : k <= l
        b == CHOOSE k \in rs : \A l \in rs : k >= l
    IN  IF ls = {} \/ rs = {} THEN NoMatch
        ELSE IF b < a THEN NoMatch
        ELSE [found |-> TRUE, span |-> SubSeq(t, a, b)]

ParseFailed == [ok |-> FALSE, value |-> <<>>]

\* The try block of the outline operations: strip, match, JSON.parse; the
\* catch block turns every failure into "Failed to parse ... outline".
parseOutline(t) ==
    LET m == jsonMatch(stripFences(t))
    IN  IF ~m.found THEN ParseFailed
        ELSE IF ~IsObject(m.span) THEN ParseFailed
        ELSE [ok |-> TRUE, value |-> m.span]

\* A response: prose, a fence, the JSON object, a fence, prose.
NoDoc ==
    [pc |-> "none", op |-> "none", pre |-> <<>>, obj |-> <<>>, post |-> <<>>,
     fenced |-> FALSE, span |-> NoMatch, out |-> ParseFailed]

Text(d) ==
    d.pre \o (IF d.fenced THEN <<"fence">> ELSE <<>>) \o d.obj
          \o (IF d.fenced THEN <<"fence">> ELSE <<>>) \o d.post

----------------------------------------------------------------------------
\* The CLI adapters' process invocations: callCodexCLI
\* (unnamed/part_004:16-87) and callClaudeCodeCLI (api/cover.ts:97-162).

\* Invocations followed at a time, and the milliseconds the clock can
\* advance while they run.
MaxCliCalls == 2

MaxClock == 2

CliAdapters == {"codex", "claudeCode"}

\* unnamed/part_004:29  `/tmp/codex_prompt_${Date.now()}.txt`
\* api/cover.ts:106      `/tmp/claude_prompt_${Date.now()}.txt`
TempPath(adapter, now) == [prefix |-> adapter, stamp |-> now]

NoPath == [prefix |-> "none", stamp |-> 0]

\* One invocation: where it is, the adapter, the path it chose, whether it
\* has written its prompt file, whether its unlink removed a file, what the
\* process printed.
NoCliCall ==
    [pc |-> "idle", adapter |-> "none", path |-> NoPath, wrote |-> FALSE,
     removed |-> FALSE, out |-> "none"]

NoCli == [clock |-> 0, files |-> {}, calls |-> [k \in 1..MaxCliCalls |-> NoCliCall]]

\* What the CLI process can do: print text, print nothing, or fail (exit
\* code, timeout, binary missing), which rejects execAsync's promise.
CliOutcomes == {"text", "empty", "fail"}

\* part_004:23-31, cover.ts:100-108: the cancellation check, then the path
\* is chosen from the clock and the prompt file's write is awaited.
CliEntry(adapter, now, c) ==
    IF c
    THEN [NoCliCall EXCEPT !.pc = "threw", !.adapter = adapter]
    ELSE [NoCliCall EXCEPT !.pc = "writing", !.adapter = adapter,
                           !.path = TempPath(adapter, now)]

\* part_004:48-55 and 73-86, cover.ts:123-130 and 148-161: execAsync
\* settled.  When it resolved the unlink is awaited next; when it rejected
\* control is in the catch block, which raises an error of its own.
CliExecSettled(call, outcome) ==
    IF outcome = "fail"
    THEN [call EXCEPT !.pc = "threw", !.out = outcome]
    ELSE [call EXCEPT !.pc = "cleanup", !.out = outcome]

\* part_004:54-71, cover.ts:129-146: the unlink settled (an error of it is
\* logged and dropped; existed says whether the file was there); then the
\* empty-output test and the second cancellation check.
CliAfterUnlink(call, existed, c) ==
    [call EXCEPT !.removed = existed,
                 !.pc = IF call.out = "empty" \/ c THEN "threw" ELSE "returned"]

----------------------------------------------------------------------------
\* Image generation (bedrockService.ts:119-170).

\* Invocations of generateImage in a session.
MaxImageCalls == 2

\* Images a backend response can list.
MaxImages == 2

\* What client.send settles with: a rejection, a response without body, a
\* body that is not JSON, or a JSON payload.  A payload's error field is
\* "absent", "null" or a "message"; its images field is absent (has
\* FALSE) or a list of images.
ImageResps ==
    {[kind |-> k, error |-> "absent", has |-> FALSE, images |-> <<>>] :
       k \in {"rejected", "nobody", "garbage"}}
    \cup {p \in [kind : {"payload"}, error : {"absent", "null", "message"},
                   has : BOOLEAN, images : SeqsUpTo({"a", "b"}, MaxImages)] :
            ~p.has => p.images = <<>>}

NoImageResp ==
    [kind |-> "none", error |-> "absent", has |-> FALSE, images |-> <<>>]

NoImage ==
    [pc |-> "idle", creds |-> "none", calls |-> 0, sends |-> 0,
     resp |-> NoImageResp, value |-> "none", err |-> "none"]

ImageReturned(g, v) == [g EXCEPT !.pc = "returned", !.value = v]

ImageThrew(g, e) == [g EXCEPT !.pc = "threw", !.err = e]

\* An image operation that returns the last image of the list.
ImageSettled_LastImage(g, resp) ==
    LET g1 == [g EXCEPT !.resp = resp]
    IN  IF resp.kind = "rejected" THEN ImageThrew(g1, "sendError")
        ELSE IF resp.kind = "nobody" THEN ImageThrew(g1, "noResponseBody")
        ELSE IF resp.kind = "garbage" THEN ImageThrew(g1, "SyntaxError")
        ELSE IF resp.error = "message" THEN ImageThrew(g1, "imageGenerationError")
        ELSE IF ~resp.has \/ Len(resp.images) = 0
        THEN ImageThrew(g1, "noImagesGenerated")
        ELSE ImageReturned(g1, resp.images[Len(resp.images)])

\* bedrockService.ts:148-169: the awaited client.send settled.  The catch
\* block logs the error and throws it again.
ImageSettled(g, resp) ==
    LET g1 == [g EXCEPT !.resp = resp]
    IN  IF resp.kind = "rejected" THEN ImageThrew(g1, "sendError")
        ELSE IF resp.kind = "nobody" THEN ImageThrew(g1, "noResponseBody")
        ELSE IF resp.kind = "garbage" THEN ImageThrew(g1, "SyntaxError")
        ELSE IF resp.error = "message" THEN ImageThrew(g1, "imageGenerationError")
        ELSE IF ~resp.has \/ Len(resp.images) = 0
        THEN ImageThrew(g1, "noImagesGenerated")
        ELSE ImageReturned(g1, resp.images[1])

----------------------------------------------------------------------------
Init ==
    /\ isBrowser \in BOOLEAN
    /\ useLocalAI \in BOOLEAN
    /\ installed \in [codex : BOOLEAN, claudeCode : BOOLEAN]
    /\ cancelled = FALSE
    /\ probes = 0
    /\ nCalls = 0
    /\ rc = IdleCall
    /\ book = NoBook
    /\ run = IdleRun
    /\ doc = NoDoc
    /\ img = NoImage
    /\ cli = NoCli

InFlight == rc.pc \in {"probing", "local", "bedrock", "backoff", "gemini"}

\* A caller starts generateBookOutline, generateChapterOutline or
\* generateContent (aiServiceRouter.ts:60, 109, 160).
Invoke ==
    /\ rc.pc = "idle"
    /\ nCalls < MaxCalls
    /\ \E op \in Ops, keys \in ApiKeys, f \in BOOLEAN, c \in BOOLEAN,
          p \in Strings, a \in Strings :
         /\ op # "bookOutline" => (p = "" /\ a = "")
         /\ ~f => ~c
         /\ LET r0 == [IdleCall EXCEPT !.op = op, !.keys = keys, !.fn = f,
                                       !.perspective = p, !.author = a,
                                       !.localMode = useLocalAI]
            IN  rc' = IF LocalBranch(useLocalAI, isBrowser)
                      THEN StartLocal(r0, c)
                      ELSE Cloud(r0, c)
         /\ cancelled' = c
    /\ probes' = probes + rc'.nProbe
    /\ nCalls' = nCalls + 1
    /\ UNCHANGED <<isBrowser, useLocalAI, installed>>
    /\ UNCHANGED pipeVars
    /\ UNCHANGED textVars

\* localContentService.ts:324-357: both version checks have ended.
ProbeReturn ==
    /\ rc.pc = "probing"
    /\ rc' = ProbeDone(rc, installed, cancelled)
    /\ UNCHANGED <<isBrowser, useLocalAI, installed, cancelled, probes, nCalls>>
    /\ UNCHANGED pipeVars
    /\ UNCHANGED textVars

\* The CLI process of the local adapter has ended.
LocalReturn ==
    /\ rc.pc = "local"
    /\ \E resp \in LocalResps : rc' = LocalResponse(rc, resp, cancelled)
    /\ UNCHANGED <<isBrowser, useLocalAI, installed, cancelled, probes, nCalls>>
    /\ UNCHANGED pipeVars
    /\ UNCHANGED textVars

\* bedrockService.ts:85: client.send settled.
BedrockResponse ==
    /\ rc.pc = "bedrock"
    /\ \E resp \in BedrockResps : rc' = ClaudeResponse(rc, resp)
    /\ UNCHANGED <<isBrowser, useLocalAI, installed, cancelled, probes, nCalls>>
    /\ UNCHANGED pipeVars
    /\ UNCHANGED textVars

\* bedrockService.ts:107-108: the backoff timer fired; continue.
BackoffElapsed ==
    /\ rc.pc = "backoff"
    /\ rc' = ClaudeAttempt(rc, rc.attempt + 1, cancelled)
    /\ UNCHANGED <<isBrowser, useLocalAI, installed, cancelled, probes, nCalls>>
    /\ UNCHANGED pipeVars
    /\ UNCHANGED textVars

\* The Gemini operation settled.
GeminiReturn ==
    /\ rc.pc = "gemini"
    /\ \E ok \in BOOLEAN : rc' = GeminiSettled(rc, ok)
    /\ UNCHANGED <<isBrowser, useLocalAI, installed, cancelled, probes, nCalls>>
    /\ UNCHANGED pipeVars
    /\ UNCHANGED textVars

\* The promise of the router operation settled and the caller took the
\* result or the error: the call's frame and its isCancelledFn are gone.
Receive ==
    /\ rc.pc \in {"returned", "threw"}
    /\ rc' = IdleCall
    /\ cancelled' = FALSE
    /\ UNCHANGED <<isBrowser, useLocalAI, installed, probes, nCalls>>
    /\ UNCHANGED pipeVars
    /\ UNCHANGED textVars

\* The caller's cancellation flag is raised while an operation is awaited.
Cancel ==
    /\ InFlight
    /\ ~cancelled
    /\ cancelled' = TRUE
    /\ UNCHANGED <<isBrowser, useLocalAI, installed, probes, nCalls, rc>>
    /\ UNCHANGED pipeVars
    /\ UNCHANGED textVars

\* unnamed/part_007:160-167  toggleLocalAI(useLocal)
ToggleLocalAI ==
    /\ \E useLocal \in BOOLEAN :
         /\ useLocal # useLocalAI
         /\ useLocalAI' = useLocal
    /\ UNCHANGED <<isBrowser, installed, cancelled, probes, nCalls, rc>>
    /\ UNCHANGED pipeVars
    /\ UNCHANGED textVars

Next ==
    \/ Invoke
    \/ ProbeReturn
    \/ LocalReturn
    \/ BedrockResponse
    \/ BackoffElapsed
    \/ GeminiReturn
    \/ Receive
    \/ Cancel
    \/ ToggleLocalAI

Spec == Init /\ [][Next]_vars

\* bedrockService.ts:85 and 107: the awaited request settles (the SDK client
\* resolves or rejects its promise) and the backoff timer fires.
FairClaude == WF_vars(BedrockResponse) /\ WF_vars(BackoffElapsed)

SpecFair == Init /\ [][Next]_vars /\ FairClaude

----------------------------------------------------------------------------
\* The bulk pipeline, contentService.ts:38-92 (generateAllContent).
\*
\* The operators below work on a record m = [book, run, call]: the Book
\* object, the run's frame, and the router operation the segment ends by
\* awaiting (op "none" when it ends otherwise).

NoCall == [op |-> "none", fn |-> FALSE]

\* contentService.ts:58, 73, 81, 88  onProgress({ ...updatedBook })
\* (x is the value of m, computed once.)
Emit(m) ==
    CHOOSE e \in {[x EXCEPT !.run.emits = @ + 1,
                            !.run.first = IF x.run.emits = 0 THEN x.book ELSE @,
                            !.run.diffs = IF x.run.emits = 0 THEN @
                                          ELSE @ \cup {NodeChanges(x.run.last,
                                                                   x.book)},
                            !.run.last = x.book] : x \in {m}} : TRUE

\* An error leaves the async function: its promise is rejected.
RunThrew(m, e) == [m EXCEPT !.run.pc = "threw", !.run.err = e]

\* contentService.ts:56, 76: a router operation is called and awaited.
\* The outline call passes no isCancelledFn, the content call passes it on.
Request(m, op, withFn) ==
    [m EXCEPT !.run.pc = op,
              !.run.calls = Append(@, [op |-> op, i |-> m.run.i, j |-> m.run.j]),
              !.call = [op |-> op, fn |-> withFn]]

\* A pipeline that leaves a completed section alone.
MarkGenerating_SkipCompleted(sec) ==
    IF sec.status = "completed" THEN sec ELSE [sec EXCEPT !.status = "generating"]

\* contentService.ts:72  subChapter.status = 'generating'
MarkGenerating(sec) == [sec EXCEPT !.status = "generating"]

\* A section stored without its completed mark.
StoreContent_NoStatus(sec) == [sec EXCEPT !.content = "new"]

\* contentService.ts:77-78  subChapter.content = contentResult.result;
\* subChapter.status = 'completed'
StoreContent(sec) == [sec EXCEPT !.content = "new", !.status = "completed"]

\* A pipeline that asks for an outline whether or not the chapter has one.
NeedsOutline_Always(ch) == TRUE

\* contentService.ts:55  if (!chapter.subChapters)
NeedsOutline(ch) == ~ch.has

\* The bulk pipelines: generateAllContent and
\* generateAllContentWithResearch of contentService.ts, generateAllContent
\* of localContentService.ts.
BulkKinds == {"generateAll", "generateAllResearch", "localAll"}

\* contentService.ts:13-19: researchAndGenerate up to its first await, with
\* c what isCancelledFn() returns now: the cancellation check, then the
\* research call.
ResearchHead(m, c) ==
    LET m1 == [m EXCEPT !.run.resChecks = IF m.run.fn THEN @ + 1 ELSE @]
    IN  IF m.run.fn /\ c
        THEN RunThrew(m1, ErrCancelled("researchAndGenerate"))
        ELSE [m1 EXCEPT !.run.pc = "research", !.run.resCalls = @ + 1]

\* researchAndGenerate without its check after the research call.
AfterResearch_NoCheck(m, c) ==
    Request([m EXCEPT !.run.resDone = @ + 1], "content", m.run.fn)

\* contentService.ts:19-35: the research call returned its findings: the
\* cancellation check again, then the content request.
AfterResearch(m, c) ==
    LET m1 == [m EXCEPT !.run.resDone = @ + 1,
                        !.run.resChecks = IF m.run.fn THEN @ + 1 ELSE @]
    IN  IF m.run.fn /\ c
        THEN RunThrew(m1, ErrCancelled("researchAndGenerate"))
        ELSE Request(m1, "content", m.run.fn)

\* localContentService.ts:97-106 and 125-133: the local pipeline calls a
\* CLI adapter when its apiKeys argument carries a codex or claudeCode flag,
\* handing it isCancelledFn, and raises an error when it carries neither.
LocalRequest(m, op) ==
    IF m.run.flags.codex \/ m.run.flags.claudeCode
    THEN Request(m, op, m.run.fn)
    ELSE RunThrew(m, Err("noLocalService", "localPipeline", {"local"}, "none"))

RECURSIVE ChapterHead(_, _, _)
RECURSIVE SectionHead(_, _, _, _)

\* contentService.ts:46-62 and localContentService.ts:87-109: the head of
\* the chapter loop for chapter i (from 1), with c what isCancelledFn()
\* returns now.  (x is the value of m, computed once.)
ChapterHead(m, i, c) ==
    CHOOSE e \in
      {IF i > Len(x.book.chapters)
       THEN [x EXCEPT !.run.pc = "returned"]
       ELSE IF x.run.fn /\ c
            THEN RunThrew(x, ErrCancelled("pipeline"))
            ELSE LET m1 == [x EXCEPT !.run.i = i, !.run.j = 0]
                 IN  IF NeedsOutline(x.book.chapters[i])
                     THEN IF x.run.kind = "localAll"
                          THEN LocalRequest(m1, "chapterOutline")
                          ELSE Request(m1, "chapterOutline", FALSE)
                     ELSE SectionHead(m1, i, 1, c) : x \in {m}} : TRUE

\* contentService.ts:63-76 and 86-89 (119-136 and 146-147 with research;
\* localContentService.ts:112-133 and 147-149 for the local pipeline):
\* the head of the section loop for section j of chapter i; past the last
\* section the chapter is marked completed and the chapter loop goes on.
SectionHead(m, i, j, c) ==
    CHOOSE e \in
      {IF j > Len(x.book.chapters[i].subs)
       THEN ChapterHead(Emit([x EXCEPT !.book.chapters[i].status = "completed"]),
                        i + 1, c)
       ELSE IF x.run.fn /\ c
            THEN RunThrew(x, ErrCancelled("pipeline"))
            ELSE \* one section of the loop body, m1 computed once
                 CHOOSE r \in
                   {IF x.run.kind = "generateAllResearch"
                    THEN ResearchHead(m1, c)
                    ELSE IF x.run.kind = "localAll"
                         THEN LocalRequest(m1, "content")
                         ELSE Request(m1, "content", x.run.fn) :
                    m1 \in {Emit([x EXCEPT !.run.j = j,
                                          !.book.chapters[i].subs[j] =
                                              MarkGenerating(@)])}} : TRUE :
       x \in {m}} : TRUE


\* Sections with newly assigned ids nid, nid+1, ... and status 'pending'.
FreshSections(n, nid) ==
    [k \in 1..n |-> Section(nid + k - 1, "pending", "none")]

\* unnamed/part_004:306-330 returns three sections, api/cover.ts:466-495
\* four, when the CLI's text holds no JSON array.
codexFallbackParts == 3

claudeFallbackParts == 4

\* The status values a backend may write into the entries of its JSON.
RawStatuses == {"pending", "completed"}

\* The section lists a settled chapter-outline operation r can have
\* returned, nid being the next identifier uuidv4 hands out.
\*   Bedrock  (bedrockService.ts:330-335): id uuidv4(), status 'pending'.
\*   Codex    (unnamed/part_004:180-184): JSON.parse of the matched span,
\*            returned as it is: id and status are the backend's.
\*   Claude   (api/cover.ts:317-326): the backend's entry with id
\*            `subsection-N` when it names none (written -N here) and
\*            status 'pending'.
\*   Gemini:  as Bedrock.
\* An id of 0 stands for whatever the backend wrote in the id field.
OutlineLists(r, nid) ==
    IF r.used = "local" /\ r.value = "localFallbackOutline"
    THEN {FreshSections(IF r.local = "codex" THEN codexFallbackParts
                        ELSE claudeFallbackParts, nid)}
    ELSE IF r.used = "local" /\ r.local = "codex"
    THEN UNION {[1..n -> {Section(0, st, "none") : st \in RawStatuses}] :
                n \in 1..MaxSections}
    ELSE IF r.used = "local"
    THEN {[k \in 1..n |-> Section(0 - k, "pending", "none")] :
          n \in 1..MaxSections}
    ELSE {FreshSections(n, nid) : n \in 1..MaxSections}

\* contentService.ts:57-58 and 62: the outline is attached and emitted,
\* then the section loop starts.
AttachOutline(m, list, c) ==
    LET i  == m.run.i
        m1 == [m EXCEPT !.book.chapters[i].subs = list,
                        !.book.chapters[i].has = TRUE,
                        !.run.attached = @ + 1,
                        !.run.nextId = @ + Len(list)]
    IN  SectionHead(Emit(m1), i, 1, c)

\* A pipeline that drops the content of a section it found 'generating'.
ContentDone_DropsResumed(m) ==
    LET i  == m.run.i
        j  == m.run.j
        resumed == /\ m.run.book0.chapters[i].has
                   /\ m.run.book0.chapters[i].subs[j].status = "generating"
        m1 == [m EXCEPT !.book.chapters[i].subs[j] =
                            IF resumed THEN @ ELSE StoreContent(@),
                        !.run.done = @ + 1]
    IN  [Emit(m1) EXCEPT !.run.pc = "delay"]

\* contentService.ts:77-84: the content is stored and emitted, then the
\* pacing delay is awaited.
ContentDone(m) ==
    LET i  == m.run.i
        j  == m.run.j
        m1 == [m EXCEPT !.book.chapters[i].subs[j] = StoreContent(@),
                        !.run.done = @ + 1]
    IN  [Emit(m1) EXCEPT !.run.pc = "delay"]

\* aiServiceRouter.ts:109-119 and 160-170: a router operation called by the
\* pipeline, up to its first await.
StartRouter(op, keys, f, c) ==
    LET r0 == [IdleCall EXCEPT !.op = op, !.keys = keys, !.fn = f,
                               !.localMode = useLocalAI]
    IN  IF LocalBranch(useLocalAI, isBrowser)
        THEN StartLocal(r0, c)
        ELSE Cloud(r0, c)

\* contentService.ts:204-223: the try block of the cloud converter up to
\* its await.  Reading a property of an undefined apiKeys raises a
\* TypeError, in the try block and again in the catch block (:232).
HeatCloudStart(r, c) ==
    IF r.keys.t = "undefined"
    THEN Threw(r, Err("TypeError", "converter", {}, "none"))
    ELSE IF r.keys.t = "object" /\ r.keys.bedrock /\ r.keys.ak # ""
         THEN ClaudeAttempt([r EXCEPT !.nBedrock = @ + 1], 0, c)
         ELSE HeatCatch(r)

\* localContentService.ts:285-302: the local converter picks the adapter
\* from the flags of its apiKeys argument, Codex first.
HeatLocalStart(r, flags, c) ==
    IF flags.codex THEN LocalEntry(r, "codex", c)
    ELSE IF flags.claudeCode THEN LocalEntry(r, "claudeCode", c)
    ELSE Threw(r, Err("noLocalService", "converter", {"local"}, "none"))

\* The heat-level content request of a converter run rn, up to its await.
\* The cloud converter has no isCancelledFn to hand on.
StartHeat(rn, c) ==
    LET r0 == [IdleCall EXCEPT !.op = "heatContent", !.keys = rn.keys,
                               !.localMode = rn.kind = "convertLocal"]
    IN  IF rn.kind = "convertLocal"
        THEN HeatLocalStart([r0 EXCEPT !.fn = rn.fn], rn.flags, c)
        ELSE HeatCloudStart(r0, c)

\* localContentService.ts:97-103 and 126-132: a CLI adapter called by the
\* local bulk pipeline, Codex first, up to its await.
StartDirect(op, rn, c) ==
    LET r0 == [IdleCall EXCEPT !.op = op, !.keys = rn.keys, !.fn = rn.fn,
                               !.localMode = TRUE, !.direct = TRUE]
    IN  LocalEntry(r0, IF rn.flags.codex THEN "codex" ELSE "claudeCode", c)

\* The segment ends: the book and the frame are as m says, and the provider
\* operation m asks for has run up to its first await.  (x is the value of
\* m, computed once.)
Commit(m) ==
    \E x \in {m} :
      /\ book' = x.book
      /\ run' = [x.run EXCEPT
                   !.lateCalls = IF x.call.op # "none" /\ cancelled
                                 THEN @ + 1 ELSE @,
                   !.overlap = @ \/ (x.call.op # "none" /\ InFlight)]
      /\ rc' = IF x.call.op = "none"
               THEN IdleCall
               ELSE IF x.call.op = "heatContent"
                    THEN StartHeat(x.run, cancelled)
                    ELSE IF x.run.kind = "localAll"
                    THEN StartDirect(x.call.op, x.run, cancelled)
                    ELSE StartRouter(x.call.op, x.run.keys, x.call.fn, cancelled)
      /\ probes' = probes + rc'.nProbe
      /\ UNCHANGED <<isBrowser, useLocalAI, installed, cancelled, nCalls>>
      /\ UNCHANGED textVars

\* The segment that is running now.
Here == [book |-> book, run |-> run, call |-> NoCall]

\* A pipeline that does not await the router operation it called.
RouterSettled_Always == TRUE

\* contentService.ts:56, 76  await aiRouter.generate...(): the pipeline goes
\* on when the router operation has returned or thrown.
RouterSettled == rc.pc \in {"returned", "threw"}

----------------------------------------------------------------------------
\* Books a run is started on: a draft in any of the states generateAllContent
\* itself can leave a book in.  shape[i] is the length of chapter i's list
\* (0: no list), k the number of sections completed in order, g whether the
\* section after them is 'generating'.

RECURSIVE SumTo(_, _)
SumTo(shape, n) == IF n = 0 THEN 0 ELSE shape[n] + SumTo(shape, n - 1)

\* Sections of the chapters before the first one without a list.
Listed(shape) ==
    LET holes == {i \in DOMAIN shape : shape[i] = 0}
    IN  IF holes = {} THEN SumTo(shape, Len(shape))
        ELSE SumTo(shape, (CHOOSE i \in holes : \A h \in holes : i <= h) - 1)

BookOf(shape, k, g) ==
    [id |-> 1, status |-> "draft",
     chapters |->
       [i \in DOMAIN shape |->
          LET before == SumTo(shape, i - 1)
          IN  Chapter(10 * i,
                      IF shape[i] > 0 /\ before + shape[i] <= k
                      THEN "completed" ELSE "pending",
                      shape[i] > 0,
                      [j \in 1..shape[i] |->
                         LET n == before + j
                         IN  Section(100 * i + j,
                                     IF n <= k THEN "completed"
                                     ELSE IF n = k + 1 /\ g THEN "generating"
                                     ELSE "pending",
                                     IF n <= k THEN "old" ELSE "none")])]]

Shapes == UNION {[1..n -> 0..MaxSections] : n \in 1..MaxChapters}

InitBooks ==
    {BookOf(t[1], t[2], t[3]) :
       t \in {u \in Shapes \X (0..(MaxChapters * MaxSections)) \X BOOLEAN :
                u[2] + (IF u[3] THEN 1 ELSE 0) <= Listed(u[1])}}

\* The apiKeys a bulk run is given: none, a Gemini key only, Bedrock
\* credentials only, both.
PipeKeys ==
    {k \in ApiKeys : /\ k.t \in {"undefined", "object"}
                     /\ k.gemini # ""
                     /\ k.bedrock => (k.ak = "K" /\ k.sk = "K")}

\* The configurations a bulk run is started in: cloud mode, or local mode
\* on a machine with any set of the CLIs installed.
InitPipe ==
    /\ isBrowser = FALSE
    /\ useLocalAI \in BOOLEAN
    /\ installed \in [codex : BOOLEAN, claudeCode : BOOLEAN]
    /\ ~useLocalAI => installed = [codex |-> FALSE, claudeCode |-> FALSE]
    /\ cancelled = FALSE
    /\ probes = 0
    /\ nCalls = 0
    /\ rc = IdleCall
    /\ book \in InitBooks
    /\ run = IdleRun
    /\ doc = NoDoc
    /\ img = NoImage
    /\ cli = NoCli

\* contentService.ts:38-46: generateAllContent(book, apiKeys, onProgress,
\* isCancelledFn) is called; f says whether isCancelledFn is given.
GenerateAllStart ==
    /\ run.pc = "idle"
    /\ \E keys \in PipeKeys, f \in BOOLEAN :
         Commit(ChapterHead([Here EXCEPT !.run.pc = "running",
                                         !.run.kind = "generateAll",
                                         !.run.keys = keys,
                                         !.run.fn = f,
                                         !.run.local0 = useLocalAI,
                                         !.run.book0 = book],
                            1, cancelled))

\* contentService.ts:56-62: the awaited generateChapterOutline settled.
OutlineReturn ==
    /\ run.pc = "chapterOutline"
    /\ RouterSettled
    /\ IF rc.pc = "threw"
       THEN Commit(RunThrew(Here, rc.err))
       ELSE \E list \in OutlineLists(rc, run.nextId) :
              Commit(AttachOutline(Here, list, cancelled))

\* contentService.ts:76-84: the awaited generateContent settled.
ContentReturn ==
    /\ run.pc = "content"
    /\ RouterSettled
    /\ IF rc.pc = "threw"
       THEN Commit(RunThrew(Here, rc.err))
       ELSE Commit(ContentDone(Here))

\* contentService.ts:84 (143 with research): the pacing timer fired; the
\* section loop goes on.
DelayElapsed ==
    /\ run.pc = "delay"
    /\ run.kind \in BulkKinds
    /\ Commit(SectionHead(Here, run.i, run.j + 1, cancelled))

\* The caller's cancellation flag is raised during the pacing delay.
CancelDuringDelay ==
    /\ run.pc = "delay"
    /\ run.fn
    /\ ~cancelled
    /\ cancelled' = TRUE
    /\ run' = [run EXCEPT !.cancelPhase = "delay", !.cancelAfter = run.done]
    /\ UNCHANGED <<isBrowser, useLocalAI, installed, probes, nCalls, rc, book>>
    /\ UNCHANGED textVars

NextPipe ==
    \/ GenerateAllStart
    \/ OutlineReturn
    \/ ContentReturn
    \/ DelayElapsed
    \/ CancelDuringDelay
    \/ Cancel
    \/ ProbeReturn
    \/ LocalReturn
    \/ BedrockResponse
    \/ BackoffElapsed
    \/ GeminiReturn

SpecPipe == InitPipe /\ [][NextPipe]_vars

\* An awaited promise settles or rejects and a timer fires: every segment
\* of the run that can start does start.  The caller need never cancel.
FairPipe ==
    /\ WF_vars(GenerateAllStart)
    /\ WF_vars(OutlineReturn)
    /\ WF_vars(ContentReturn)
    /\ WF_vars(DelayElapsed)
    /\ WF_vars(ProbeReturn)
    /\ WF_vars(LocalReturn)
    /\ WF_vars(BedrockResponse)
    /\ WF_vars(BackoffElapsed)
    /\ WF_vars(GeminiReturn)

\* A run started on a book none of whose sections has been worked on.
InitFresh ==
    /\ InitPipe
    /\ \A i \in DOMAIN book.chapters :
         /\ book.chapters[i].status = "pending"
         /\ \A j \in DOMAIN book.chapters[i].subs :
              book.chapters[i].subs[j].status = "pending"

SpecPipeFair == InitFresh /\ [][NextPipe]_vars /\ FairPipe

\* generateAllContent called again on the book a cancelled or failed run
\* left behind: with completed sections, a section 'generating', or both.
InitResume ==
    /\ InitPipe
    /\ \E n \in DOMAIN AllSections(book) :
         AllSections(book)[n].status # "pending"

SpecResumeFair == InitResume /\ [][NextPipe]_vars /\ FairPipe

----------------------------------------------------------------------------
\* The router's bulk route (aiServiceRouter.ts:236-258) in cloud mode.

\* aiServiceRouter.ts:256  apiKeys.bedrock || apiKeys.region || 'us-west-2'
\* The value the cloud pipeline receives as its apiKeys: the Bedrock
\* credentials object when apiKeys has one (an object with no bedrock and
\* no gemini property of its own), else a region string.
BulkApiKeys(keys) ==
    IF keys.t = "object" /\ keys.bedrock
    THEN [t |-> "object", s |-> "", bedrock |-> FALSE, ak |-> "", sk |-> "",
          gemini |-> "undefined"]
    ELSE [t |-> "string", s |-> "K", bedrock |-> FALSE, ak |-> "", sk |-> "",
          gemini |-> "undefined"]

\* aiServiceRouter.ts:236-258, the else branch of :242: the router's
\* generateAllContent is called outside local mode and calls the cloud
\* pipeline.  Reading apiKeys.bedrock of an undefined apiKeys is a
\* TypeError.
RouterGenerateAll ==
    /\ run.pc = "idle"
    /\ ~LocalBranch(useLocalAI, isBrowser)
    /\ \E keys \in PipeKeys, f \in BOOLEAN :
         LET m0 == [Here EXCEPT !.run.kind = "generateAll",
                                !.run.via = "router",
                                !.run.given = keys,
                                !.run.fn = f,
                                !.run.book0 = book]
         IN  IF keys.t = "undefined"
             THEN Commit(RunThrew(m0, Err("TypeError", "router", {}, "none")))
             ELSE Commit(ChapterHead([m0 EXCEPT !.run.pc = "running",
                                                !.run.keys = BulkApiKeys(keys)],
                                     1, cancelled))

InitBulk == InitPipe /\ ~useLocalAI

NextBulk ==
    \/ RouterGenerateAll
    \/ GenerateAllStart
    \/ OutlineReturn
    \/ ContentReturn
    \/ DelayElapsed
    \/ CancelDuringDelay
    \/ Cancel
    \/ BedrockResponse
    \/ BackoffElapsed
    \/ GeminiReturn

SpecBulk == InitBulk /\ [][NextBulk]_vars

----------------------------------------------------------------------------
\* The router's generateAllContent in local mode.

\* The apiKeys the router's bulk operation is given in local mode: an
\* object with an empty gemini property (unnamed/part_007:181-189), with
\* or without Bedrock credentials.
LocalBulkKeys ==
    {k \in ApiKeys : /\ k.t = "object"
                     /\ k.gemini = ""
                     /\ k.bedrock => (k.ak = "K" /\ k.sk = "K")}

\* aiServiceRouter.ts:242-246: in local mode the router's generateAllContent
\* calls the local pipeline with the apiKeys it was given, whose codex and
\* claudeCode flags are as unnamed/part_007:187-188 fills them.
RouterGenerateAllLocal ==
    /\ run.pc = "idle"
    /\ LocalBranch(useLocalAI, isBrowser)
    /\ \E keys \in LocalBulkKeys, f \in BOOLEAN :
         Commit(ChapterHead([Here EXCEPT !.run.pc = "running",
                                         !.run.kind = "localAll",
                                         !.run.via = "router",
                                         !.run.given = keys,
                                         !.run.keys = keys,
                                         !.run.flags = installed,
                                         !.run.fn = f,
                                         !.run.local0 = useLocalAI,
                                         !.run.book0 = book],
                            1, cancelled))

\* aiServiceRouter.ts:247-252: the router's catch block around the local
\* pipeline: whatever error left it, the cloud pipeline is started on the
\* same book object.
RouterBulkCatch ==
    /\ run.pc = "threw"
    /\ run.kind = "localAll"
    /\ Commit(ChapterHead([Here EXCEPT !.run.pc = "running",
                                       !.run.kind = "generateAll",
                                       !.run.keys = BulkApiKeys(run.given),
                                       !.run.fellBack = TRUE,
                                       !.run.err = NoErr],
                          1, cancelled))

InitLocalBulk ==
    /\ InitPipe
    /\ useLocalAI

\* The cloud pipeline the catch block starts is handed BulkApiKeys, which
\* hold no Bedrock credentials the router could find: its requests go to
\* the local adapters and to Gemini.
NextLocalBulk ==
    \/ RouterGenerateAllLocal
    \/ RouterBulkCatch
    \/ OutlineReturn
    \/ ContentReturn
    \/ DelayElapsed
    \/ CancelDuringDelay
    \/ Cancel
    \/ ProbeReturn
    \/ LocalReturn
    \/ GeminiReturn

SpecLocalBulk == InitLocalBulk /\ [][NextLocalBulk]_vars

----------------------------------------------------------------------------
\* A bulk run with the configuration toggled while it runs
\* (unnamed/part_007:160-167 called by the settings UI between two
\* segments of the run), on a fresh book of one chapter.

InitToggle ==
    /\ isBrowser = FALSE
    /\ useLocalAI \in BOOLEAN
    /\ installed \in [codex : BOOLEAN, claudeCode : BOOLEAN]
    /\ cancelled = FALSE
    /\ probes = 0
    /\ nCalls = 0
    /\ rc = IdleCall
    /\ book \in InitBooks
    /\ Len(book.chapters) = 1
    /\ book.chapters[1].status = "pending"
    /\ \A j \in DOMAIN book.chapters[1].subs :
         book.chapters[1].subs[j].status = "pending"
    /\ run = IdleRun
    /\ doc = NoDoc
    /\ img = NoImage
    /\ cli = NoCli

NextToggle ==
    \/ GenerateAllStart
    \/ OutlineReturn
    \/ ContentReturn
    \/ DelayElapsed
    \/ CancelDuringDelay
    \/ Cancel
    \/ ProbeReturn
    \/ LocalReturn
    \/ BedrockResponse
    \/ BackoffElapsed
    \/ GeminiReturn
    \/ ToggleLocalAI

SpecToggle == InitToggle /\ [][NextToggle]_vars

----------------------------------------------------------------------------
\* The bulk pipeline with research (contentService.ts:7-36, 94-148).

\* What the research collaborator's researchTopic settles with: the text
\* of its findings, or an error.
ResearchResults == {"text", "error"}

ResearchError == Err("researchFailed", "research", {}, "none")

\* contentService.ts:94-102: generateAllContentWithResearch(book, apiKeys,
\* onProgress, isCancelledFn) is called.
ResearchStart ==
    /\ run.pc = "idle"
    /\ \E keys \in PipeKeys, f \in BOOLEAN :
         Commit(ChapterHead([Here EXCEPT !.run.pc = "running",
                                         !.run.kind = "generateAllResearch",
                                         !.run.keys = keys,
                                         !.run.fn = f,
                                         !.run.book0 = book],
                            1, cancelled))

\* contentService.ts:19-35: the awaited researchTopic settled.  Its error
\* leaves researchAndGenerate and the run.
ResearchReturn ==
    /\ run.pc = "research"
    /\ \E res \in ResearchResults :
         IF res = "error"
         THEN Commit(RunThrew(Here, ResearchError))
         ELSE Commit(AfterResearch(Here, cancelled))

\* The caller's cancellation flag is raised while the research call is
\* outstanding.
CancelDuringResearch ==
    /\ run.pc = "research"
    /\ run.fn
    /\ ~cancelled
    /\ cancelled' = TRUE
    /\ run' = [run EXCEPT !.cancelPhase = "research", !.cancelAfter = run.done]
    /\ UNCHANGED <<isBrowser, useLocalAI, installed, probes, nCalls, rc, book>>
    /\ UNCHANGED textVars

NextResearch ==
    \/ ResearchStart
    \/ OutlineReturn
    \/ ResearchReturn
    \/ CancelDuringResearch
    \/ ContentReturn
    \/ DelayElapsed
    \/ CancelDuringDelay
    \/ Cancel
    \/ ProbeReturn
    \/ LocalReturn
    \/ BedrockResponse
    \/ BackoffElapsed
    \/ GeminiReturn

SpecResearch == InitFresh /\ [][NextResearch]_vars

----------------------------------------------------------------------------
\* Heat-level conversion: aiServiceRouter.ts:286-309 (router),
\* contentService.ts:150-252 (cloud converter), localContentService.ts:223-321
\* (local converter).

\* A derived book that keeps the original's id.
NewBookId_Reuse(b, nid) == b.id

\* contentService.ts:168, localContentService.ts:242  id: uuidv4()
NewBookId(b, nid) == nid

\* contentService.ts:166-186, localContentService.ts:240-260: the derived
\* book.  nid is the next identifier uuidv4 hands out; the book takes it,
\* the chapters the ones after it, the sections the ones after those.
Derive(b, nid) ==
    [id |-> NewBookId(b, nid),
     status |-> "generating",
     chapters |->
       [i \in DOMAIN b.chapters |->
          Chapter(nid + i, "pending", b.chapters[i].has,
                  [j \in DOMAIN b.chapters[i].subs |->
                     Section(nid + Len(b.chapters) + SectionIndex(b, i, j),
                             "pending", "none")])]]

\* Identifiers Derive uses.
DeriveIds(b) == 1 + Len(b.chapters) + Len(AllSections(b))

\* localContentService.ts:270-273 checks isCancelledFn before each section;
\* contentService.ts:193-196 has no check (and no isCancelledFn parameter).
ConverterChecks(kind) == kind = "convertLocal"

\* A converter that returns the derived book without marking it.
FinishBook_Unmarked(b) == b

\* contentService.ts:250, localContentService.ts:319
\* newBook.status = 'completed'
FinishBook(b) == [b EXCEPT !.status = "completed"]

RECURSIVE ConvChapterHead(_, _, _)
RECURSIVE ConvSectionHead(_, _, _, _)

\* contentService.ts:191-194 and 250-251, localContentService.ts:265-268
\* and 319-320: the head of the chapter loop; after the last chapter the
\* book is marked completed and returned.
ConvChapterHead(m, i, c) ==
    IF i > Len(m.book.chapters)
    THEN [m EXCEPT !.book = FinishBook(@), !.run.pc = "returned"]
    ELSE ConvSectionHead([m EXCEPT !.run.i = i, !.run.j = 0], i, 1, c)

\* contentService.ts:195-201 and 246-248, localContentService.ts:269-279
\* and 314-316: the head of the section loop.  A chapter without a list has
\* no sections to visit.
ConvSectionHead(m, i, j, c) ==
    IF j > Len(m.book.chapters[i].subs)
    THEN ConvChapterHead(Emit([m EXCEPT !.book.chapters[i].status = "completed"]),
                         i + 1, c)
    ELSE IF ConverterChecks(m.run.kind) /\ m.run.fn /\ c
         THEN RunThrew(m, ErrCancelled("converter"))
         ELSE Request(Emit([m EXCEPT !.run.j = j,
                                     !.book.chapters[i].subs[j] =
                                         MarkGenerating(@)]),
                      "heatContent", ConverterChecks(m.run.kind) /\ m.run.fn)

\* contentService.ts:166-190, localContentService.ts:240-264: a converter
\* starts: the derived book is built from the original and emitted, then
\* the loops start.
ConvBegin(m, kind, keys, c) ==
    LET m1 == [m EXCEPT !.book = Derive(m.run.orig, m.run.nextId),
                        !.run.nextId = @ + DeriveIds(m.run.orig),
                        !.run.kind = kind,
                        !.run.keys = keys,
                        !.run.pc = "running",
                        !.call = NoCall]
    IN  ConvChapterHead(Emit(m1), 1, c)

\* aiServiceRouter.ts:297-302: the router's catch block around the local
\* converter: whatever error left it, the cloud converter is started on the
\* original book.
RouterCatch(m, c) ==
    IF m.run.pc = "threw" /\ m.run.kind = "convertLocal" /\ m.run.via = "router"
    THEN ConvBegin([m EXCEPT !.run.fellBack = TRUE], "convertCloud",
                   m.run.keys, c)
    ELSE m

\* aiServiceRouter.ts:302, 306  apiKeys.bedrock || apiKeys.region ||
\* 'us-west-2': what the router hands the cloud converter as its apiKeys.
\* It is the credentials object (which has no bedrock and no gemini
\* property) or a region string.
CloudConverterArg(hasBedrock) ==
    IF hasBedrock
    THEN [t |-> "object", s |-> "", bedrock |-> FALSE, ak |-> "", sk |-> "",
          gemini |-> "undefined"]
    ELSE [t |-> "string", s |-> "K", bedrock |-> FALSE, ak |-> "", sk |-> "",
          gemini |-> "undefined"]

\* A converter whose derived book holds the chapter objects of the
\* original: what it writes into a chapter or a section shows in both.
OriginalAfter_SharedChapters(orig, derived) ==
    [orig EXCEPT !.chapters = derived.chapters]

\* contentService.ts:166-186, localContentService.ts:240-260: newBook is an
\* object literal, its chapters the array map() returns, every chapter and
\* every section an object literal of its own.  The converter writes to
\* newBook and to nodes reached from it (:199, :237-238, :246, :250), so
\* the originalBook object is after a segment what it was before it.
OriginalAfter(orig, derived) == orig

\* A segment of a converter ends.
ConvCommit(m) ==
    \E x \in {m} :
      Commit([x EXCEPT !.run.orig = OriginalAfter(x.run.orig, x.book)])

\* The configurations and books a conversion is started on.
InitConvert ==
    /\ isBrowser = FALSE
    /\ useLocalAI \in BOOLEAN
    /\ installed \in [codex : BOOLEAN, claudeCode : BOOLEAN]
    /\ ~useLocalAI => installed = [codex |-> FALSE, claudeCode |-> FALSE]
    /\ cancelled = FALSE
    /\ probes = 0
    /\ nCalls = 0
    /\ rc = IdleCall
    /\ book \in InitBooks
    /\ run = IdleRun
    /\ doc = NoDoc
    /\ img = NoImage
    /\ cli = NoCli

\* aiServiceRouter.ts:286-309: the router's convertRomanceHeatLevel is
\* called with an apiKeys object (with or without Bedrock credentials, its
\* codex and claudeCode flags as unnamed/part_007:188-189 fills them) and,
\* when f, an isCancelledFn.
ConvertViaRouter ==
    /\ run.pc = "idle"
    /\ \E hasBedrock \in BOOLEAN, f \in BOOLEAN :
         LET m0 == [Here EXCEPT !.run.via = "router",
                                !.run.fn = f,
                                !.run.flags = installed,
                                !.run.book0 = book,
                                !.run.orig = book]
             kind == IF LocalBranch(useLocalAI, isBrowser)
                     THEN "convertLocal" ELSE "convertCloud"
         IN  ConvCommit(RouterCatch(ConvBegin(m0, kind,
                                              CloudConverterArg(hasBedrock),
                                              cancelled),
                                    cancelled))

\* contentService.ts:150-155: the cloud converter is called directly.
ConvertCloud ==
    /\ run.pc = "idle"
    /\ \E keys \in PipeKeys :
         ConvCommit(ConvBegin([Here EXCEPT !.run.via = "cloud",
                                           !.run.book0 = book,
                                           !.run.orig = book],
                              "convertCloud", keys, cancelled))

ConvKinds == {"convertCloud", "convertLocal"}

\* contentService.ts:204-243, localContentService.ts:285-309: the awaited
\* heat-level content request settled.
HeatReturn ==
    /\ run.pc = "heatContent"
    /\ RouterSettled
    /\ IF rc.pc = "threw"
       THEN ConvCommit(RouterCatch(RunThrew(Here, rc.err), cancelled))
       ELSE ConvCommit(ContentDone(Here))

\* contentService.ts:243, localContentService.ts:309: the 1500 ms timer
\* fired; the section loop goes on.
ConvDelayElapsed ==
    /\ run.pc = "delay"
    /\ run.kind \in ConvKinds
    /\ ConvCommit(RouterCatch(ConvSectionHead(Here, run.i, run.j + 1,
                                              cancelled),
                              cancelled))

NextConvert ==
    \/ ConvertViaRouter
    \/ ConvertCloud
    \/ HeatReturn
    \/ ConvDelayElapsed
    \/ CancelDuringDelay
    \/ Cancel
    \/ LocalReturn
    \/ BedrockResponse
    \/ BackoffElapsed
    \/ GeminiReturn

SpecConvert == InitConvert /\ [][NextConvert]_vars

----------------------------------------------------------------------------
\* The outline parsers applied to response texts.

Prose == SeqsUpTo({"lb", "rb", "w"}, MaxProse)

Objects == {t \in SeqsUpTo({"lb", "rb", "w"}, MaxObject) : IsObject(t)}

InitParse ==
    /\ isBrowser = FALSE
    /\ useLocalAI = FALSE
    /\ installed = [codex |-> FALSE, claudeCode |-> FALSE]
    /\ cancelled = FALSE
    /\ probes = 0
    /\ nCalls = 0
    /\ rc = IdleCall
    /\ book = NoBook
    /\ run = IdleRun
    /\ img = NoImage
    /\ cli = NoCli
    /\ \E pre \in Prose, obj \in Objects, post \in Prose, f \in BOOLEAN :
         doc = [NoDoc EXCEPT !.pc = "response", !.pre = pre, !.obj = obj,
                             !.post = post, !.fenced = f]

\* What an outline operation makes of the response d: the span it hands to
\* JSON.parse and the outcome of its try block.
Parsed(d, op) ==
    [d EXCEPT !.pc = "parsed", !.op = op,
              !.span = jsonMatch(stripFences(Text(d))),
              !.out = parseOutline(Text(d))]

\* Bedrock generateBookOutline receives the model's response
\* (bedrockService.ts:244-261).
ParseBookOutline ==
    /\ doc.pc = "response"
    /\ doc' = Parsed(doc, "bookOutline")
    /\ UNCHANGED <<img, cli>>
    /\ UNCHANGED <<isBrowser, useLocalAI, installed, cancelled, probes, nCalls, rc>>
    /\ UNCHANGED pipeVars

\* Bedrock generateChapterOutline receives the model's response
\* (bedrockService.ts:314-328).
ParseChapterOutline ==
    /\ doc.pc = "response"
    /\ doc' = Parsed(doc, "chapterOutline")
    /\ UNCHANGED <<img, cli>>
    /\ UNCHANGED <<isBrowser, useLocalAI, installed, cancelled, probes, nCalls, rc>>
    /\ UNCHANGED pipeVars

NextParse == ParseBookOutline \/ ParseChapterOutline

SpecParse == InitParse /\ [][NextParse]_vars

----------------------------------------------------------------------------
\* Bedrock image generation.

InitImage ==
    /\ isBrowser = FALSE
    /\ useLocalAI = FALSE
    /\ installed = [codex |-> FALSE, claudeCode |-> FALSE]
    /\ cancelled = FALSE
    /\ probes = 0
    /\ nCalls = 0
    /\ rc = IdleCall
    /\ book = NoBook
    /\ run = IdleRun
    /\ doc = NoDoc
    /\ img = NoImage
    /\ cli = NoCli

\* bedrockService.ts:119-148: generateImage(prompt, regionOrCreds) builds
\* the client and the command and sends it.
GenerateImage ==
    /\ img.pc \in {"idle", "returned", "threw"}
    /\ img.calls < MaxImageCalls
    /\ \E cr \in {"region", "credentials"} :
         img' = [NoImage EXCEPT !.pc = "sent", !.creds = cr,
                                !.calls = img.calls + 1, !.sends = 1]
    /\ UNCHANGED <<isBrowser, useLocalAI, installed, cancelled, probes, nCalls, rc>>
    /\ UNCHANGED pipeVars
    /\ UNCHANGED <<doc, cli>>

\* bedrockService.ts:148-169: the backend answered.
ImageResponse ==
    /\ img.pc = "sent"
    /\ \E resp \in ImageResps : img' = ImageSettled(img, resp)
    /\ UNCHANGED <<isBrowser, useLocalAI, installed, cancelled, probes, nCalls, rc>>
    /\ UNCHANGED pipeVars
    /\ UNCHANGED <<doc, cli>>

NextImage == GenerateImage \/ ImageResponse

SpecImage == InitImage /\ [][NextImage]_vars

----------------------------------------------------------------------------
\* CLI invocations in progress at the same time (the adapters are async
\* functions and nothing serialises their callers), with the clock
\* advancing between steps.

InitCli ==
    /\ isBrowser = FALSE
    /\ useLocalAI = TRUE
    /\ installed = [codex |-> TRUE, claudeCode |-> TRUE]
    /\ cancelled = FALSE
    /\ probes = 0
    /\ nCalls = 0
    /\ rc = IdleCall
    /\ book = NoBook
    /\ run = IdleRun
    /\ doc = NoDoc
    /\ img = NoImage
    /\ cli = NoCli

CliFrame ==
    /\ UNCHANGED <<isBrowser, useLocalAI, installed, cancelled, probes, nCalls, rc>>
    /\ UNCHANGED pipeVars
    /\ UNCHANGED <<doc, img>>

\* part_004:16-31, cover.ts:97-108: an adapter is invoked.
CliStart ==
    /\ \E k \in 1..MaxCliCalls, a \in CliAdapters, c \in BOOLEAN :
         /\ cli.calls[k].pc = "idle"
         /\ cli' = [cli EXCEPT !.calls[k] = CliEntry(a, cli.clock, c)]
    /\ CliFrame

\* part_004:31, cover.ts:108: writeFile resolved; the process is started
\* and awaited.
CliWritten ==
    /\ \E k \in 1..MaxCliCalls :
         /\ cli.calls[k].pc = "writing"
         /\ cli' = [cli EXCEPT !.files = @ \cup {cli.calls[k].path},
                               !.calls[k].wrote = TRUE,
                               !.calls[k].pc = "running"]
    /\ CliFrame

\* part_004:48-51, cover.ts:123-126: the process ended.
CliExecDone ==
    /\ \E k \in 1..MaxCliCalls, o \in CliOutcomes :
         /\ cli.calls[k].pc = "running"
         /\ cli' = [cli EXCEPT !.calls[k] = CliExecSettled(@, o)]
    /\ CliFrame

\* part_004:54-71, cover.ts:129-146: the unlink settled and the invocation
\* ends.
CliUnlinked ==
    /\ \E k \in 1..MaxCliCalls, c \in BOOLEAN :
         /\ cli.calls[k].pc = "cleanup"
         /\ cli' = [cli EXCEPT
                      !.files = @ \ {cli.calls[k].path},
                      !.calls[k] = CliAfterUnlink(@, cli.calls[k].path \in cli.files, c)]
    /\ CliFrame

\* A millisecond passes.
CliTick ==
    /\ cli.clock < MaxClock
    /\ cli' = [cli EXCEPT !.clock = @ + 1]
    /\ CliFrame

NextCli == CliStart \/ CliWritten \/ CliExecDone \/ CliUnlinked \/ CliTick

SpecCli == InitCli /\ [][NextCli]_vars

----------------------------------------------------------------------------

----------------------------------------------------------------------------
\* Vocabulary of the properties.

\* apiKeys carries a Gemini key: the gemini property of an object, or (the
\* older calling convention) apiKeys is itself the key string.
GeminiKeyPresent(keys) ==
    \/ keys.t = "object" /\ keys.gemini = "K"
    \/ keys.t = "string" /\ keys.s = "K"

\* apiKeys carries both halves of the Bedrock credentials.
BedrockKeysPresent(keys) ==
    keys.t = "object" /\ keys.bedrock /\ keys.ak = "K" /\ keys.sk = "K"

\* An operation has been started and did not take the local branch.
CloudMode == rc.pc # "idle" /\ ~(rc.localMode /\ ~isBrowser)

\* The waits the retry policy prescribes, in milliseconds.
PrescribedWaits == <<1000, 2000, 4000>>

----------------------------------------------------------------------------
\* C1: in cloud mode, with the Bedrock accessKeyId or secretAccessKey absent
\* and a Gemini key present, an operation never calls the Bedrock adapter,
\* calls the Gemini adapter exactly once, and returns Gemini's result with
\* usedService = 'gemini'.
C1_GeminiWhenBedrockAbsent ==
    (CloudMode /\ ~BedrockKeysPresent(rc.keys) /\ GeminiKeyPresent(rc.keys))
    => /\ rc.nBedrock = 0
       /\ rc.sends = 0
       /\ rc.nGemini = 1
       /\ rc.pc \in {"gemini", "returned", "threw"}
       /\ rc.pc = "returned"
            => rc.used = "gemini" /\ rc.value = "geminiResult"

C1_Witness ==
    /\ CloudMode /\ ~BedrockKeysPresent(rc.keys) /\ GeminiKeyPresent(rc.keys)
    /\ rc.op = "content"
    /\ rc.pc = "returned"
    /\ rc.used = "gemini"

\* C2: with both Bedrock and Gemini credentials present, the Gemini adapter
\* is called if and only if the Bedrock operation raised an error, at most
\* once, and its result is returned with usedService = 'gemini'; when the
\* Bedrock operation succeeds its result is returned with usedService =
\* 'bedrock' and Gemini is not called.
C2_GeminiIffBedrockFailed ==
    (rc.pc # "idle" /\ BedrockKeysPresent(rc.keys) /\ GeminiKeyPresent(rc.keys))
    => /\ rc.nBedrock <= 1
       /\ rc.nGemini <= 1
       /\ rc.nGemini = 1 <=> rc.bedrockErr # NoErr
       /\ (rc.pc = "returned" /\ rc.nGemini = 1)
            => rc.used = "gemini" /\ rc.value = "geminiResult"
       /\ (rc.claudeText /\ rc.bedrockErr = NoErr)
            => /\ rc.pc = "returned"
               /\ rc.used = "bedrock"
               /\ rc.value = "bedrockResult"
               /\ rc.nGemini = 0

C2_Witness ==
    /\ BedrockKeysPresent(rc.keys) /\ GeminiKeyPresent(rc.keys)
    /\ rc.bedrockErr.kind = "serviceError"
    /\ rc.nGemini = 1
    /\ rc.pc = "returned"
    /\ rc.used = "gemini"

\* C3: when the Bedrock operation and then the Gemini operation fail within
\* one router operation, the error the caller gets names both providers.
C3_ErrorNamesBothProviders ==
    (rc.pc = "threw" /\ rc.bedrockErr # NoErr /\ rc.geminiErr # NoErr)
    => {"bedrock", "gemini"} \subseteq rc.err.names

\* C4: in cloud mode, with neither Bedrock credentials nor a Gemini key in
\* apiKeys, the operation fails with the no-provider error and calls no
\* adapter.
C4_NoProviderNoCall ==
    (CloudMode /\ ~BedrockKeysPresent(rc.keys) /\ ~GeminiKeyPresent(rc.keys))
    => /\ rc.nBedrock = 0
       /\ rc.nGemini = 0
       /\ rc.nLocal = 0
       /\ rc.pc = "threw"
       /\ rc.err.kind = "geminiUnavailable"

\* C5: with Bedrock credentials present and no Gemini key, a failed Bedrock
\* operation is not followed by a Gemini call, and the caller gets an error
\* reporting the Bedrock failure.
C5_NoGeminiWithoutKey ==
    (BedrockKeysPresent(rc.keys) /\ ~GeminiKeyPresent(rc.keys)
       /\ rc.bedrockErr # NoErr)
    => /\ rc.nGemini = 0
       /\ rc.pc = "threw"
       /\ rc.err.kind = "geminiUnavailable"
       /\ rc.err.cause = rc.bedrockErr.kind

\* C6: generateChapterOutline and generateContent return usedService =
\* 'local' only if the environment is not a browser, local mode was enabled
\* and the probe reported a CLI; in a browser the probe and the local
\* adapters are never invoked, whatever the local-mode flag is.
C6_LocalOnlyWhenViable ==
    /\ (rc.op \in {"chapterOutline", "content"} /\ rc.used = "local")
         => /\ ~isBrowser
            /\ rc.localMode
            /\ rc.nProbe = 1
            /\ rc.avail.codex \/ rc.avail.claudeCode
    /\ isBrowser
         => /\ probes = 0
            /\ rc.nProbe = 0
            /\ rc.nLocal = 0
            /\ rc.used # "local"

C6_Witness ==
    /\ rc.op = "chapterOutline"
    /\ rc.pc = "returned"
    /\ rc.used = "local"
    /\ rc.local = "codex"

\* C7: over any sequence of router operations in local mode in one session
\* the capability probe is executed at most once.
C7_ProbeAtMostOnce == probes <= 1

\* C8: when the local or the Bedrock adapter fails generateContent with the
\* cancellation error, the router calls no further adapter and the caller
\* gets the cancellation error.
C8_CancelStopsRouter ==
    rc.op = "content"
    => /\ rc.localErr.kind = "cancelled"
            => /\ rc.nBedrock = 0
               /\ rc.nGemini = 0
               /\ rc.pc = "threw"
               /\ rc.err.kind = "cancelled"
       /\ rc.bedrockErr.kind = "cancelled"
            => /\ rc.nGemini = 0
               /\ rc.pc = "threw"
               /\ rc.err.kind = "cancelled"

\* C9: callClaudeModel sends at most 4 requests; after k <= 3 throttled
\* attempts followed by a successful one it returns the text after exactly
\* k+1 requests, having waited 1s, 2s, 4s after the failed attempts 0, 1, 2;
\* when all 4 are throttled the 4th error propagates with no 5th request and
\* no wait after it.
C9_RetryBackoff ==
    /\ rc.sends <= 4
    /\ Len(rc.waits) <= 3
    /\ \A i \in 1..Len(rc.waits) : rc.waits[i] = PrescribedWaits[i]
    /\ rc.lastResp \in TextResps
         => /\ rc.claudeText
            /\ rc.sends = rc.throttles + 1
            /\ Len(rc.waits) = rc.throttles
    /\ rc.throttles = 4
         => /\ rc.bedrockErr.kind = "ThrottlingException"
            /\ rc.sends = 4
            /\ Len(rc.waits) = 3
            /\ rc.pc \notin {"bedrock", "backoff"}
            /\ ~rc.afterLoop

C9_Witness ==
    /\ rc.throttles = 3
    /\ rc.claudeText
    /\ rc.sends = 4
    /\ rc.waits = <<1000, 2000, 4000>>

\* C10: in Bedrock generateContent the caller's cancellation check is
\* consulted before every attempt, the first and every retry; when it
\* returns true the call fails with the cancellation error and that attempt
\* is not sent.
C10_CancelCheckedBeforeEveryAttempt ==
    (rc.op = "content" /\ rc.fn /\ rc.nBedrock = 1)
    => /\ ~rc.sendSawCancel
       /\ rc.checks = rc.sends + (IF rc.checkTrue THEN 1 ELSE 0)
       /\ rc.checkTrue
            => /\ rc.bedrockErr.kind = "cancelled"
               /\ rc.pc \notin {"bedrock", "backoff"}

C10_Witness ==
    /\ rc.op = "content"
    /\ rc.fn
    /\ rc.checkTrue
    /\ rc.sends = 2
    /\ rc.bedrockErr.kind = "cancelled"

\* C11: for the Bedrock, Codex CLI and Claude Code CLI adapters: when the
\* caller's cancellation check has become true while the provider call was
\* in flight, the adapter fails with the cancellation error once the call
\* returns, and the text it produced is not returned to the caller.
C11_CancelSeenAfterCall ==
    (rc.op = "content" /\ rc.fn /\ cancelled)
    => /\ rc.claudeText => rc.bedrockErr.kind = "cancelled"
       /\ rc.pc = "returned" => rc.used \notin {"bedrock", "local"}

----------------------------------------------------------------------------
\* Vocabulary of the bulk-run properties.

CountStatus(b, st) ==
    Cardinality({n \in DOMAIN AllSections(b) : AllSections(b)[n].status = st})

\* Every chapter has a list and every section in it is completed with text.
ChapterDone(ch) ==
    /\ ch.has
    /\ \A j \in DOMAIN ch.subs :
         ch.subs[j].status = "completed" /\ ch.subs[j].content # "none"

\* The book of the resumption scenario: chapter 1 has a list whose sections
\* are all completed, chapter 2 has no list.
ResumeBook(b) ==
    /\ Len(b.chapters) = 2
    /\ b.chapters[1].has
    /\ Len(b.chapters[1].subs) >= 1
    /\ \A j \in DOMAIN b.chapters[1].subs :
         b.chapters[1].subs[j].status = "completed"
    /\ ~b.chapters[2].has

\* C12: a generateAllContent run on a book whose chapter 1 has all sections
\* completed and whose chapter 2 has no list makes no provider request for
\* chapter 1 and leaves chapter 1's section statuses and contents as they
\* were; when the run returns, chapter 2 has a list whose sections are all
\* completed with newly generated content.
C12_ResumeLeavesCompletedChapter ==
    (run.kind = "generateAll" /\ ResumeBook(run.book0))
    => /\ \A n \in DOMAIN run.calls : run.calls[n].i # 1
       /\ book.chapters[1].subs = run.book0.chapters[1].subs
       /\ run.pc = "returned"
          => /\ ChapterDone(book.chapters[2])
             /\ \A j \in DOMAIN book.chapters[2].subs :
                  book.chapters[2].subs[j].content = "new"

\* The status steps a section may take.
StatusSteps == {<<"pending", "generating">>, <<"generating", "completed">>}

\* C13: within one generateAllContent run every change of a section's
\* status is pending -> generating or generating -> completed; no section
\* goes from completed back to generating or pending, whatever book the run
\* was started on.
C13_StatusStepsForward ==
    [][run'.kind = "generateAll"
       => \A i \in DOMAIN book.chapters :
            \A j \in DOMAIN book.chapters[i].subs :
              LET before == book.chapters[i].subs[j].status
                  after  == book'.chapters[i].subs[j].status
              IN  before = after \/ <<before, after>> \in StatusSteps]_vars

\* C14: in every state of a generateAllContent run at most one section of
\* the book is 'generating', also when the run was started on a book an
\* earlier failed or cancelled run left behind.
C14_OneSectionGenerating ==
    run.kind = "generateAll" => CountStatus(book, "generating") <= 1

\* A book none of whose sections has been worked on.
FreshBook(b) ==
    \A n \in DOMAIN AllSections(b) : AllSections(b)[n].status = "pending"

ContentCalls(r) ==
    Cardinality({n \in DOMAIN r.calls : r.calls[n].op = "content"})

\* The section the run is at is not the last node of the book: a section
\* or a chapter follows it.
MoreToDo == run.j < Len(book.chapters[run.i].subs) \/ run.i < Len(book.chapters)

\* C15: when the cancellation check given to generateAllContent turns true
\* after the first section has completed (before the pacing delay is over),
\* the run fails with the cancellation error; the second section is never
\* set to 'generating' and no content request is made for it; the last
\* emitted book has exactly one completed section and all others pending.
\* (The case is that of a book with something left to do after the first
\* section.)
C15_CancelAfterFirstSection ==
    (/\ run.kind = "generateAll"
     /\ FreshBook(run.book0)
     /\ run.cancelPhase = "delay"
     /\ run.cancelAfter = 1
     /\ MoreToDo
     /\ run.pc # "delay")
    => /\ run.pc = "threw"
       /\ run.err.kind = "cancelled"
       /\ ContentCalls(run) = 1
       /\ CountStatus(run.last, "completed") = 1
       /\ CountStatus(run.last, "pending") = Len(AllSections(run.last)) - 1

\* The run was left by an error that its last content request raised.
ContentRequestFailed ==
    /\ run.kind = "generateAll"
    /\ run.pc = "threw"
    /\ run.err.kind # "cancelled"
    /\ run.calls # <<>>
    /\ run.calls[Len(run.calls)].op = "content"
    /\ run.err.by # "pipeline"

\* C16: when the content request for a section fails with an error other
\* than cancellation during a generateAllContent run on a fresh book, the
\* error leaves the run, no provider call is outstanding, and the book is
\* as last emitted: that section is 'generating', every section before it
\* is 'completed' with content, every section after it is 'pending'.
C16_FailureLeavesLastSnapshot ==
    (ContentRequestFailed /\ FreshBook(run.book0))
    => /\ ~InFlight
       /\ run.last = book
       /\ LET n == SectionIndex(book, run.i, run.j)
          IN  \A m \in DOMAIN AllSections(book) :
                LET sec == AllSections(book)[m]
                IN  /\ m < n => (sec.status = "completed" /\ sec.content # "none")
                    /\ m = n => sec.status = "generating"
                    /\ m > n => sec.status = "pending"

\* Every chapter is completed and every section completed with text.
AllDone(b) ==
    \A i \in DOMAIN b.chapters :
      b.chapters[i].status = "completed" /\ ChapterDone(b.chapters[i])

\* What a returned run leaves: the book all done, and onProgress called at
\* least once per section and once per outline attached.
ReturnedDone ==
    /\ AllDone(book)
    /\ run.emits >= Len(AllSections(book)) + run.attached

\* C17: when no provider call fails the run and cancellation is never
\* requested, generateAllContent terminates; on return every chapter is
\* 'completed', every section is 'completed' with non-empty content, and
\* onProgress has been invoked at least once per section and once per
\* attached chapter outline.
C17_CompletesWhenNothingFails ==
    /\ [](run.pc = "returned" => ReturnedDone)
    /\ [](run.pc # "threw" /\ ~cancelled) => <>(run.pc = "returned")

\* A run that attached an outline has returned.
C17_Witness ==
    /\ run.kind = "generateAll"
    /\ run.pc = "returned"
    /\ run.attached >= 1
    /\ run.done >= 2
    /\ ~cancelled

\* C18: the book a generateAllContent run returns after completing every
\* chapter has book-level status 'completed', and the snapshots emitted
\* while the run is in progress have book-level status 'generating'.
C18_BookStatusFollowsRun ==
    run.kind = "generateAll"
    => /\ run.pc = "returned" => book.status = "completed"
       /\ (run.emits > 0 /\ run.pc \in {"chapterOutline", "content", "delay"})
          => run.last.status = "generating"

\* The ids of a book, its chapters and its sections.
BookIds(b) ==
    {b.id} \cup {b.chapters[i].id : i \in DOMAIN b.chapters}
           \cup {AllSections(b)[n].id : n \in DOMAIN AllSections(b)}

\* C19: convertRomanceHeatLevel builds a derived book whose id differs from
\* the original's and whose chapter and section ids differ from the
\* corresponding original ids and from each other; the first snapshot it
\* emits, which precedes every content request, has book status
\* 'generating', every chapter and section 'pending' and every section's
\* content cleared.
C19_DerivedBookIsFresh ==
    (run.kind \in ConvKinds /\ run.emits >= 1)
    => /\ book.id # run.book0.id
       /\ \A i \in DOMAIN book.chapters :
            /\ book.chapters[i].id # run.book0.chapters[i].id
            /\ \A j \in DOMAIN book.chapters[i].subs :
                 book.chapters[i].subs[j].id # run.book0.chapters[i].subs[j].id
       /\ Cardinality(BookIds(book))
            = 1 + Len(book.chapters) + Len(AllSections(book))
       /\ run.first.status = "generating"
       /\ \A i \in DOMAIN run.first.chapters :
            run.first.chapters[i].status = "pending"
       /\ \A n \in DOMAIN AllSections(run.first) :
            /\ AllSections(run.first)[n].status = "pending"
            /\ AllSections(run.first)[n].content = "none"
       /\ run.calls # <<>> => run.emits >= 2

\* A conversion of a book with completed sections has emitted its skeleton
\* and awaits its first content request.
C19_Witness ==
    /\ run.kind \in ConvKinds
    /\ run.pc = "heatContent"
    /\ run.emits >= 1
    /\ Len(run.calls) = 1
    /\ CountStatus(run.book0, "completed") >= 2

\* C20: when the caller's cancellation check has turned true during a
\* conversion started through the router's convertRomanceHeatLevel, no
\* content request is issued for any section after the one in flight, and
\* the run does not end in an error of the converter other than the
\* cancellation error; for the cloud converter as for the local one.
C20_CancelStopsConversion ==
    (run.kind \in ConvKinds /\ run.via = "router" /\ run.fn /\ cancelled)
    => /\ run.lateCalls = 0
       /\ (run.pc = "threw" /\ run.err.by = "converter")
          => run.err.kind = "cancelled"

\* The span from the first { to the } that balances it.
balancedSpan(t) ==
    LET ls == Positions(t, "lb")
        a == CHOOSE k \in ls : \A l \in ls : k <= l
        u == SubSeq(t, a, Len(t))
        ends == {k \in 1..Len(u) : Depth(u, k) = 0}
        b == CHOOSE k \in ends : \A l \in ends : k <= l
    IN  IF ls = {} THEN NoMatch
        ELSE IF ends = {} THEN NoMatch
        ELSE [found |-> TRUE, span |-> SubSeq(u, 1, b)]

\* C21: a response that is one JSON object wrapped in code-fence markers
\* and surrounded by prose, which may itself contain braces, is parsed by
\* the Bedrock outline operations to the same object as the bare JSON text;
\* the span extracted is the first balanced {...} span of the response.
C21_FencedObjectParsesAsBare ==
    (doc.pc = "parsed" /\ doc.fenced)
    => /\ doc.out = parseOutline(doc.obj)
       /\ doc.out.ok
       /\ doc.out.value = doc.obj
       /\ doc.span = balancedSpan(stripFences(Text(doc)))

\* C22: in callClaudeModel an error that is not a ThrottlingException, the
\* 'Empty response from Claude' error included, leaves the function from
\* the attempt where it occurred: that attempt's request is the last one
\* sent, no backoff wait follows it, and it is the error Bedrock raised.
C22_OtherErrorsPropagateAtOnce ==
    rc.lastResp \in {"empty", "error"}
    => /\ rc.pc \notin {"bedrock", "backoff"}
       /\ rc.bedrockErr = ClaudeError(rc.lastResp)
       /\ rc.bedrockErr.kind # "ThrottlingException"
       /\ rc.sends = rc.attempt + 1
       /\ rc.sends = rc.throttles + 1
       /\ Len(rc.waits) = rc.throttles
       /\ ~rc.afterLoop

\* The third request, after two throttled ones, was answered with no text.
C22_Witness ==
    /\ rc.lastResp = "empty"
    /\ rc.throttles = 2
    /\ rc.sends = 3
    /\ rc.waits = <<1000, 2000>>
    /\ rc.bedrockErr.kind = "emptyResponse"

\* C23: when the router's generateAllContent is called in cloud mode with
\* apiKeys holding valid Bedrock credentials, every chapter-outline and
\* section-content request of the run is first attempted on the Bedrock
\* adapter, and Gemini is called for a request only after Bedrock failed on
\* that request.
C23_BulkRouteTriesBedrockFirst ==
    (/\ run.kind = "generateAll" /\ run.via = "router"
     /\ BedrockKeysPresent(run.given)
     /\ run.pc \in {"chapterOutline", "content"})
    => /\ rc.nBedrock = 1
       /\ rc.nGemini >= 1 => rc.lastResp # "none"

\* C24: between any two consecutive onProgress emissions of a
\* generateAllContent run exactly one node changed (one chapter had its
\* outline attached, or one section changed status, or one chapter changed
\* status): no emission with zero changes, none with two or more.
C24_OneNodePerEmission ==
    run.kind = "generateAll" => run.diffs \subseteq {1}

\* The places in the run's request log of the outline request, and of the
\* content requests, of chapter i.
OutlineCallsOf(i) ==
    {n \in DOMAIN run.calls :
       run.calls[n].op = "chapterOutline" /\ run.calls[n].i = i}

ContentCallsOf(i) ==
    {n \in DOMAIN run.calls :
       run.calls[n].op = "content" /\ run.calls[n].i = i}

\* C25: generateAllContent requests a chapter outline for a chapter if and
\* only if that chapter has no sub-chapter list, at most once per chapter
\* per run and before any content request of that chapter; a list a
\* chapter already has keeps its length, its order and its section ids.
C25_OutlineOnlyWhenMissing ==
    run.kind = "generateAll"
    => \A i \in DOMAIN run.book0.chapters :
         /\ OutlineCallsOf(i) # {}
              <=> (i <= run.i /\ ~run.book0.chapters[i].has)
         /\ Cardinality(OutlineCallsOf(i)) <= 1
         /\ \A n \in OutlineCallsOf(i), k \in ContentCallsOf(i) : n < k
         /\ run.book0.chapters[i].has
              => /\ book.chapters[i].has
                 /\ Len(book.chapters[i].subs) = Len(run.book0.chapters[i].subs)
                 /\ \A j \in DOMAIN book.chapters[i].subs :
                      book.chapters[i].subs[j].id
                        = run.book0.chapters[i].subs[j].id

\* A run on a book whose first chapter had a list and whose second had
\* none has returned: one outline was requested, for chapter 2, and content
\* was requested for both chapters.
C25_Witness ==
    /\ run.kind = "generateAll"
    /\ run.pc = "returned"
    /\ Len(run.book0.chapters) = 2
    /\ run.book0.chapters[1].has
    /\ ~run.book0.chapters[2].has
    /\ OutlineCallsOf(1) = {}
    /\ Cardinality(OutlineCallsOf(2)) = 1
    /\ ContentCallsOf(1) # {}
    /\ ContentCallsOf(2) # {}

\* Request c of the log comes before request d in the order of the book.
Precedes(c, d) == c.i < d.i \/ (c.i = d.i /\ c.j < d.j)

\* The result of request c is on the book.
Stored(c) ==
    IF c.op = "chapterOutline"
    THEN book.chapters[c.i].has
    ELSE /\ book.chapters[c.i].subs[c.j].status = "completed"
         /\ book.chapters[c.i].subs[c.j].content = "new"

\* C26: within one generateAllContent run the provider requests are issued
\* strictly in (chapter index, section index) order, and at most one is
\* outstanding at any time: a request is issued only after the previous
\* one has returned and its result has been stored.
C26_OneRequestAtATimeInOrder ==
    run.kind = "generateAll"
    => /\ \A n \in 1..(Len(run.calls) - 1) :
            /\ Precedes(run.calls[n], run.calls[n + 1])
            /\ Stored(run.calls[n])
       /\ ~run.overlap
       /\ InFlight => run.pc \in {"chapterOutline", "content"}
       /\ Len(run.calls) <= run.attached + run.done + 1

\* The run has issued an outline request and three content requests over
\* two chapters, and the last one is outstanding.
C26_Witness ==
    /\ run.kind = "generateAll"
    /\ run.pc = "content"
    /\ InFlight
    /\ Len(run.calls) = 4
    /\ run.calls[1].op = "chapterOutline"
    /\ run.calls[4].i = 2

\* C27: in generateAllContentWithResearch the research call of a section
\* returns before the section's content request is issued, and the
\* cancellation check is consulted before the research call and again
\* after it returns; when it is true after research no content request is
\* made for that section, the run fails with the cancellation error and the
\* section is left 'generating'.
C27_ResearchThenCheckThenContent ==
    run.kind = "generateAllResearch"
    => /\ ContentCalls(run) <= run.resDone
       /\ run.resCalls <= ContentCalls(run) + 1
       /\ run.pc = "research" => ContentCalls(run) = run.resDone
       /\ run.pc = "content" => run.calls[Len(run.calls)].j = run.j
       /\ run.fn => run.resChecks = run.resCalls + run.resDone
       /\ (run.cancelPhase = "research" /\ run.pc # "research"
            /\ run.err # ResearchError)
          => /\ run.pc = "threw"
             /\ run.err.kind = "cancelled"
             /\ ContentCalls(run) = run.resDone - 1
             /\ ContentCalls(run) = run.done
             /\ book.chapters[run.i].subs[run.j].status = "generating"

\* The cancellation flag was raised while the research for the second
\* section was outstanding, the research returned, and the run has ended.
C27_Witness ==
    /\ run.kind = "generateAllResearch"
    /\ run.cancelPhase = "research"
    /\ run.resDone = 2
    /\ run.done = 1
    /\ run.pc = "threw"
    /\ run.err.kind = "cancelled"
    /\ book.chapters[run.i].subs[run.j].status = "generating"

\* C28: generateAllContent called again on the book a cancelled or failed
\* run left behind eventually returns, given no further provider error and
\* no cancellation, with every section 'completed', the section the
\* earlier run left 'generating' included.
C28_ResumeCompletes ==
    /\ [](run.pc = "returned"
           => \A n \in DOMAIN AllSections(book) :
                /\ AllSections(book)[n].status = "completed"
                /\ AllSections(book)[n].content # "none")
    /\ [](run.pc # "threw" /\ ~cancelled) => <>(run.pc = "returned")

\* A run on a book with a completed section and a section left
\* 'generating' has returned with that section completed with new text.
C28_Witness ==
    /\ run.kind = "generateAll"
    /\ run.pc = "returned"
    /\ ~cancelled
    /\ CountStatus(run.book0, "generating") = 1
    /\ CountStatus(run.book0, "completed") >= 1
    /\ CountStatus(book, "completed") = Len(AllSections(book))
    /\ \E n \in DOMAIN AllSections(run.book0) :
         /\ AllSections(run.book0)[n].status = "generating"
         /\ AllSections(book)[n].content = "new"

\* C29: when convertRomanceHeatLevel returns normally the derived book it
\* returns has status 'completed' and every chapter and every section of it
\* is 'completed' with content set; the status 'completed' is set only
\* after the last chapter was marked completed.
C29_ConvertedBookIsCompleted ==
    run.kind \in ConvKinds
    => /\ run.pc = "returned"
            => /\ book.status = "completed"
               /\ book.id # run.book0.id
               /\ \A i \in DOMAIN book.chapters :
                    book.chapters[i].status = "completed"
               /\ \A n \in DOMAIN AllSections(book) :
                    /\ AllSections(book)[n].status = "completed"
                    /\ AllSections(book)[n].content = "new"
       /\ book.status = "completed"
            => /\ run.pc = "returned"
               /\ run.last.status = "generating"
               /\ \A i \in DOMAIN run.last.chapters :
                    run.last.chapters[i].status = "completed"

\* The cloud converter has returned the conversion of a book of two
\* chapters, one of them with two sections.
C29_Witness ==
    /\ run.kind = "convertCloud"
    /\ run.pc = "returned"
    /\ Len(book.chapters) = 2
    /\ Len(AllSections(book)) >= 2
    /\ run.done = Len(AllSections(book))
    /\ book.status = "completed"

\* C30: the cloud heat-level converter does not itself catch a provider
\* error and try again: a failed heat-level content request for a section
\* leaves convertRomanceHeatLevel, and no provider (Gemini in particular,
\* when the Bedrock credentials are absent) is called more than once for
\* the same section.
C30_CloudConverterDoesNotRetry ==
    (run.kind = "convertCloud" /\ rc.op = "heatContent")
    => /\ rc.nBedrock <= 1
       /\ rc.nGemini <= 1
       /\ (rc.bedrockErr # NoErr \/ rc.geminiErr # NoErr)
            => /\ rc.pc = "threw"
               /\ rc.nBedrock + rc.nGemini = 1

\* C31: for the chapter-outline operation of every adapter (Bedrock, Codex
\* CLI, Claude Code CLI): when the provider's response holds no JSON span,
\* or the span does not parse, the operation fails with an error and
\* returns no section list.
C31_MalformedOutlineFails ==
    rc.op = "chapterOutline"
    => /\ rc.lastResp \in {"nojson", "badjson"}
            => /\ rc.bedrockErr.kind = "parseFailed"
               /\ ~(rc.pc = "returned" /\ rc.used = "bedrock")
       /\ rc.localResp \in {"nojson", "badjson"}
            => /\ rc.localErr # NoErr
               /\ ~(rc.pc = "returned" /\ rc.used = "local")

\* C32: every section entry an outline operation of any adapter (Bedrock,
\* Codex CLI, Claude Code CLI) returns carries a newly assigned unique id
\* and status 'pending', whatever id and status the backend wrote into its
\* JSON.  Seen on the book: in a list the run attached every id is one
\* uuidv4 handed out in the run, no two nodes share an id, and the sections
\* the run has not reached yet are 'pending'.
C32_OutlineEntriesFreshPending ==
    run.kind = "generateAll"
    => \A i \in DOMAIN book.chapters :
         (~run.book0.chapters[i].has /\ book.chapters[i].has)
         => /\ \A j \in DOMAIN book.chapters[i].subs :
                 /\ book.chapters[i].subs[j].id >= IdleRun.nextId
                 /\ book.chapters[i].subs[j].id < run.nextId
                 /\ (i = run.i /\ j > run.j)
                      => book.chapters[i].subs[j].status = "pending"
            /\ Cardinality(BookIds(book))
                 = 1 + Len(book.chapters) + Len(AllSections(book))

\* C33: Bedrock image generation sends exactly one backend request per
\* invocation and never retries: it fails with 'No response body from
\* Bedrock' when the body is missing, with 'Image generation error: ...'
\* when the decoded payload has an error field (one that holds a message),
\* with 'No images generated' when the image list is absent or empty, and
\* otherwise returns exactly the first image of the list.
C33_ImageOneRequestNoRetry ==
    /\ img.pc # "idle" => img.sends = 1
    /\ img.pc \in {"returned", "threw"}
         => /\ img.resp.kind = "nobody" => img.err = "noResponseBody"
            /\ (img.resp.kind = "payload" /\ img.resp.error = "message")
                 => img.err = "imageGenerationError"
            /\ (/\ img.resp.kind = "payload" /\ img.resp.error # "message"
                /\ (~img.resp.has \/ img.resp.images = <<>>))
                 => img.err = "noImagesGenerated"
            /\ (/\ img.resp.kind = "payload" /\ img.resp.error # "message"
                /\ img.resp.has /\ img.resp.images # <<>>)
                 => /\ img.pc = "returned"
                    /\ img.value = img.resp.images[1]
            /\ img.pc = "threw" <=> img.err # "none"
            /\ img.pc = "returned" <=> img.value # "none"

\* The second invocation was answered with two images and returned the
\* first.
C33_Witness ==
    /\ img.calls = 2
    /\ img.pc = "returned"
    /\ img.resp.images = <<"a", "b">>
    /\ img.value = "a"
    /\ img.sends = 1

\* C34: the provider selection of a bulk generation run is fixed by the
\* configuration at the time the run is started: a toggleLocalAI call that
\* interleaves with a running generateAllContent does not change which
\* provider serves the remaining sections of that run.
C34_RunKeepsItsProviderMode ==
    (run.kind = "generateAll" /\ rc.op \in {"chapterOutline", "content"})
    => rc.localMode = run.local0

\* C35: in local mode outside a browser, when the capability probe or the
\* chosen local adapter fails with a non-cancellation error during router
\* generateChapterOutline or generateContent, the router continues with the
\* cloud order (Bedrock, then Gemini on Bedrock failure), and the
\* usedService it returns names the cloud provider that produced the
\* result, never 'local'.  (A probe that reports no CLI makes the router
\* raise 'No local AI services available' inside its try block; Bedrock
\* fails without a request when its credentials are missing.)
C35_LocalFailureFallsBackToCloud ==
    (/\ rc.op \in {"chapterOutline", "content"}
     /\ rc.localMode
     /\ ~isBrowser
     /\ rc.localErr.kind \notin {"none", "cancelled"})
    => /\ ~BedrockMissing(rc.keys) => rc.nBedrock = 1
       /\ rc.nGemini > 0
            => /\ BedrockMissing(rc.keys) \/ rc.bedrockErr # NoErr
               /\ rc.pc # "bedrock"
       /\ rc.pc = "returned"
            => /\ rc.used \in {"bedrock", "gemini"}
               /\ rc.used = "bedrock" => (rc.nGemini = 0 /\ rc.claudeText)
               /\ rc.used = "gemini" => rc.nGemini = 1

C35_Witness ==
    /\ rc.op = "content"
    /\ rc.localErr.kind = "cliError"
    /\ rc.nBedrock = 1
    /\ rc.bedrockErr # NoErr
    /\ rc.pc = "returned"
    /\ rc.used = "gemini"

C35_WitnessProbe ==
    /\ rc.op = "chapterOutline"
    /\ rc.localErr.kind = "noLocalService"
    /\ rc.pc = "returned"
    /\ rc.used = "bedrock"

\* The content requests a run has issued for section j of chapter i.
ContentRequestsFor(i, j) ==
    {k \in DOMAIN run.calls :
       run.calls[k] = [op |-> "content", i |-> i, j |-> j]}

InClaude == rc.pc \in {"bedrock", "backoff"}

\* C38: every invocation of callClaudeModel terminates, by returning text
\* or by raising an error from inside the attempt loop, after at most 4
\* backend calls; the statement after the loop that raises 'Maximum retries
\* exceeded' is never reached.
C38_ClaudeCallTerminates ==
    /\ [](/\ rc.sends <= maxRetries + 1
          /\ ~rc.afterLoop
          /\ rc.bedrockErr.kind # "maxRetriesExceeded"
          /\ rc.err.kind # "maxRetriesExceeded")
    /\ InClaude ~> ~InClaude

\* The fourth request of an invocation was answered with an error and the
\* invocation has ended with it.
C38_Witness ==
    /\ rc.sends = 4
    /\ rc.attempt = 3
    /\ rc.lastResp \in {"throttle", "error", "empty"}
    /\ rc.bedrockErr # NoErr
    /\ ~InClaude

\* Invocation k of a CLI adapter has ended.
CliEnded(k) == cli.calls[k].pc \in {"returned", "threw"}

\* Invocation k holds a path and has not ended.
CliRunning(k) == cli.calls[k].pc \in {"writing", "running", "cleanup"}

\* C39: every invocation of a local CLI adapter (callCodexCLI,
\* callClaudeCodeCLI) that wrote a temporary prompt file has removed that
\* file by the time it returns or raises, on the failure path of the
\* process invocation as on success; and two invocations that overlap in
\* time never write to the same temporary file path.
C39_TempFileRemovedAndPrivate ==
    /\ \A k \in 1..MaxCliCalls :
         (CliEnded(k) /\ cli.calls[k].wrote)
         => (cli.calls[k].removed \/ cli.calls[k].path \notin cli.files)
    /\ \A k1, k2 \in 1..MaxCliCalls :
         (k1 # k2 /\ CliRunning(k1) /\ CliRunning(k2))
         => cli.calls[k1].path # cli.calls[k2].path

====
